---- MODULE Spec2Model ----
(***************************************************************************)
(* A model of byte-brewery's aireview package: the tolerant response       *)
(* parser (engine.py, _parse_json_response and _normalize_result), the     *)
(* configuration loader (config_loader.py), the per-check state machine of *)
(* ReviewEngine.run_check (engine.py), the provider factory and its        *)
(* adapters (providers.py), the run command (main.py), the command runner  *)
(* with its internal commands (runner.py, internal_commands.py) and the    *)
(* legacy engine (core.py).                                                *)
(*                                                                         *)
(* Text is modelled as a sequence of atoms.  An atom is one character      *)
(* class or one word of the text: the JSON punctuation, the double quote,  *)
(* a blank, the Markdown fence of three backticks, and words.  A JSON      *)
(* string literal is a quote, any atoms but a quote, and a quote; a quote  *)
(* inside a string literal is the atom of an escaped quote.  So the        *)
(* regular expression and str.find/rfind of the parser see the braces and  *)
(* fences that stand inside string literals, as they do in the code.       *)
(***************************************************************************)
EXTENDS Integers, Sequences, FiniteSets, TLC

VARIABLES
    raw,        \* loader: the structured data read from the configuration file
    loaded,     \* loader: what ConfigLoader._parse returned or raised
    lpc,        \* loader: "idle" | "read" | "parsed"
    config,     \* engine: the Config the ReviewEngine was built with
    epc,        \* engine: where run_check stands
    cur,        \* engine: the arguments of the running run_check and the check found
    asm,        \* engine: build_context's loop position, buffer and total_chars
    context,    \* engine: the context text of the running check
    log,        \* engine: the calls made to the runner, the provider and the patch manager
    answer,     \* engine: the raw response of the provider
    verdict,    \* engine: the parsed response
    ret,        \* engine: what run_check returned
    outcome,    \* engine: the terminal outcome of the running check
    seen_build, \* history: an earlier call of build_context and what it gave
    is_dry_run, \* factory: ProviderFactory.is_dry_run
    instances,  \* factory: ProviderFactory._instances, the adapters by routing key
    built,      \* factory: the adapter classes constructed, in order
    requested,  \* factory: the routing keys get_provider has looked up
    got,        \* factory: the last call of get_provider and what it returned
    reply,      \* factory: the call of analyze on that adapter and what it returned
    args,       \* main: the parsed command line of the run command
    world,      \* main: the configuration file and the prompt file as they are on disk
    target_range,   \* main: the diff target
    manual_context, \* main: the content of --context-file, or None
    main_config,    \* main: what loader.load returned or raised
    run_calls,  \* main: the calls of engine.run_check, with their results
    exit_code,  \* main: the exit code of the process, -1 while it runs
    mexc,       \* main: the exception that ended the process, if one did
    mpc,        \* main: where main stands
    run_args,   \* runner: the arguments of the call of ShellCommandRunner.run
    run_result, \* runner: what run returned or raised, with the trace of the call
    rpc,        \* runner: "idle" | "done"
    response,   \* parser: the raw text handed to _parse_json_response
    origin,     \* parser: how the text was produced (verdict object and wrapping)
    parsed,     \* parser: what _parse_json_response returned or raised
    ppc         \* parser: "idle" | "received" | "parsed"

pvars == <<response, origin, parsed, ppc>>
lvars == <<raw, loaded, lpc>>
evars == <<config, epc, cur, asm, context, log, answer, verdict, ret, outcome>>
fvars == <<is_dry_run, instances, built, requested, got, reply>>
mvars == <<args, world, target_range, manual_context, main_config, run_calls,
           exit_code, mexc, mpc>>
rvars == <<run_args, run_result, rpc>>
hvars == <<seen_build>>
vars == <<pvars, lvars, evars, fvars, mvars, rvars, hvars>>
\* the variables a component leaves alone
nonParser == <<lvars, evars, fvars, mvars, rvars, hvars>>
nonLoader == <<pvars, evars, fvars, mvars, rvars, hvars>>
nonEngine == <<pvars, lvars, fvars, mvars, rvars, hvars>>
nonFactory == <<pvars, lvars, evars, mvars, rvars, hvars>>
nonMain == <<pvars, lvars, evars, fvars, rvars, hvars>>
nonRunner == <<pvars, lvars, evars, fvars, mvars, hvars>>

----------------------------------------------------------------------------
(* Atoms *)

Q == "\""
SP == " "
FENCE == "<fence>"
LBRACE == "{"
RBRACE == "}"
\* a quote escaped by a backslash, as it stands inside a JSON string literal
EQ == "\\\""

----------------------------------------------------------------------------
(* JSON values, as json.loads builds them.  An object is a function from   *)
(* its keys (string contents) to values: a dict.                           *)

JStr(s) == [t |-> "str", v |-> s]
JNull == [t |-> "null", v |-> <<"null">>]
JNum == [t |-> "num", v |-> <<"1">>]
JTrue == [t |-> "bool", v |-> <<"true">>]
JArr(items) == [t |-> "arr", v |-> items]
JObj(f) == [t |-> "obj", v |-> f]

EmptyDict == [k \in {} |-> JNull]

\* the content of a string literal, written and read back
Escape(s) == [k \in 1..Len(s) |-> IF s[k] = Q THEN EQ ELSE s[k]]
Unescape(s) == [k \in 1..Len(s) |-> IF s[k] = EQ THEN Q ELSE s[k]]

RECURSIVE SkipWs(_, _)
SkipWs(s, i) ==
    IF i <= Len(s) /\ s[i] = SP THEN SkipWs(s, i + 1) ELSE i

\* str.find(atom) from position i: the first index >= i holding atom, 0 if none
RECURSIVE IndexFrom(_, _, _)
IndexFrom(s, a, i) ==
    IF i > Len(s) THEN 0
    ELSE IF s[i] = a THEN i ELSE IndexFrom(s, a, i + 1)

\* str.rfind(atom): the last index holding atom, 0 if none
RECURSIVE LastIndex(_, _, _)
LastIndex(s, a, i) ==
    IF i < 1 THEN 0
    ELSE IF s[i] = a THEN i ELSE LastIndex(s, a, i - 1)

DecodeFail == [ok |-> FALSE, val |-> JNull, nxt |-> 0]

RECURSIVE ParseValue(_, _), ParseMembers(_, _, _), ParseItems(_, _, _)

\* one JSON value starting at s[i] (blanks before it are skipped by the caller)
ParseValue(s, i) ==
    IF i > Len(s) THEN DecodeFail
    ELSE IF s[i] = Q THEN
        LET j == IndexFrom(s, Q, i + 1)
        IN  IF j = 0 THEN DecodeFail
            ELSE [ok |-> TRUE, val |-> JStr(Unescape(SubSeq(s, i + 1, j - 1))),
                  nxt |-> j + 1]
    ELSE IF s[i] = "1" THEN [ok |-> TRUE, val |-> JNum, nxt |-> i + 1]
    ELSE IF s[i] = "null" THEN [ok |-> TRUE, val |-> JNull, nxt |-> i + 1]
    ELSE IF s[i] = "true" THEN [ok |-> TRUE, val |-> JTrue, nxt |-> i + 1]
    ELSE IF s[i] = LBRACE THEN
        LET j == SkipWs(s, i + 1)
        IN  IF j <= Len(s) /\ s[j] = RBRACE
            THEN [ok |-> TRUE, val |-> JObj(EmptyDict), nxt |-> j + 1]
            ELSE ParseMembers(s, j, EmptyDict)
    ELSE IF s[i] = "[" THEN
        LET j == SkipWs(s, i + 1)
        IN  IF j <= Len(s) /\ s[j] = "]"
            THEN [ok |-> TRUE, val |-> JArr(<<>>), nxt |-> j + 1]
            ELSE ParseItems(s, j, <<>>)
    ELSE DecodeFail

\* "key" : value pairs up to the closing brace; a repeated key keeps the last value
ParseMembers(s, i, acc) ==
    IF i > Len(s) \/ s[i] # Q THEN DecodeFail
    ELSE
        LET k == ParseValue(s, i)
            c == IF k.ok THEN SkipWs(s, k.nxt) ELSE 0
        IN  IF ~k.ok \/ c > Len(s) \/ s[c] # ":" THEN DecodeFail
            ELSE
                LET x == ParseValue(s, SkipWs(s, c + 1))
                    e == IF x.ok THEN SkipWs(s, x.nxt) ELSE 0
                    acc2 == (k.val.v :> x.val) @@ acc
                IN  IF ~x.ok \/ e > Len(s) THEN DecodeFail
                    ELSE IF s[e] = RBRACE
                        THEN [ok |-> TRUE, val |-> JObj(acc2), nxt |-> e + 1]
                    ELSE IF s[e] = ","
                        THEN ParseMembers(s, SkipWs(s, e + 1), acc2)
                    ELSE DecodeFail

ParseItems(s, i, acc) ==
    LET x == ParseValue(s, i)
        e == IF x.ok THEN SkipWs(s, x.nxt) ELSE 0
    IN  IF ~x.ok \/ e > Len(s) THEN DecodeFail
        ELSE IF s[e] = "]"
            THEN [ok |-> TRUE, val |-> JArr(Append(acc, x.val)), nxt |-> e + 1]
        ELSE IF s[e] = ","
            THEN ParseItems(s, SkipWs(s, e + 1), Append(acc, x.val))
        ELSE DecodeFail

\* json.loads: one value, blanks allowed around it, nothing else
JsonLoads(s) ==
    LET r == ParseValue(s, SkipWs(s, 1))
    IN  IF r.ok /\ SkipWs(s, r.nxt) > Len(s)
        THEN [ok |-> TRUE, val |-> r.val]
        ELSE [ok |-> FALSE, val |-> JNull]

----------------------------------------------------------------------------
(* json.dumps of a value: the text json.loads reads back.  Keys are written *)
(* in the order of KeyOrder, items are separated by a comma and a blank,    *)
(* a key from its value by a colon and a blank.                             *)

KeyOrder ==
    << <<"status">>, <<"feedback">>, <<"reason">>, <<"modified_files">>,
       <<"path">>, <<"content">> >>

RECURSIVE JsonDumps(_), DumpItems(_, _), DumpMembers(_, _)

JsonDumps(x) ==
    IF x.t = "str" THEN <<Q>> \o Escape(x.v) \o <<Q>>
    ELSE IF x.t = "arr" THEN <<"[">> \o DumpItems(x.v, 1) \o <<"]">>
    ELSE IF x.t = "obj"
        THEN <<LBRACE>>
             \o DumpMembers(x.v, SelectSeq(KeyOrder, LAMBDA k : k \in DOMAIN x.v))
             \o <<RBRACE>>
    ELSE x.v

DumpItems(items, i) ==
    IF i > Len(items) THEN <<>>
    ELSE JsonDumps(items[i])
         \o (IF i < Len(items) THEN <<",", SP>> ELSE <<>>)
         \o DumpItems(items, i + 1)

DumpMembers(d, keys) ==
    IF keys = <<>> THEN <<>>
    ELSE <<Q>> \o Escape(Head(keys)) \o <<Q, ":", SP>> \o JsonDumps(d[Head(keys)])
         \o (IF Len(keys) > 1 THEN <<",", SP>> ELSE <<>>)
         \o DumpMembers(d, Tail(keys))

----------------------------------------------------------------------------
(* ReviewEngine._normalize_result and _parse_json_response (engine.py)      *)

\* str.upper() on the words the model uses
UpperAtom(a) ==
    IF a = "pass" THEN "PASS"
    ELSE IF a = "fail" THEN "FAIL"
    ELSE IF a = "fix" THEN "FIX"
    ELSE IF a = "maybe" THEN "MAYBE"
    ELSE a

Upper(s) == [k \in 1..Len(s) |-> UpperAtom(s[k])]

\* dict.get(key, default)
DictGet(d, key, default) == IF <<key>> \in DOMAIN d THEN d[<<key>>] ELSE default

Verdict(st, fb, mf) ==
    [kind |-> "verdict", exc |-> "", status |-> st, feedback |-> fb,
     modified_files |-> mf]

\* an exception that leaves the method: no verdict is returned
Raised(e) ==
    [kind |-> "raised", exc |-> e, status |-> <<>>, feedback |-> JNull,
     modified_files |-> JNull]

\* data.get on a list, str, int, None raises AttributeError, and so does
\* .upper() on a status that is not a str; nothing in the parser catches it
NormalizeResult(data) ==
    IF data.t # "obj" THEN Raised("AttributeError")
    ELSE
        LET st == DictGet(data.v, "status", JStr(<<"FAIL">>))
        IN  IF st.t # "str" THEN Raised("AttributeError")
            ELSE Verdict(Upper(st.v),
                         DictGet(data.v, "feedback",
                                 DictGet(data.v, "reason", JStr(<<"No feedback">>))),
                         DictGet(data.v, "modified_files", JArr(<<>>)))

NoMatch == [ok |-> FALSE, grp |-> <<>>]

\* the lazy  \{.*?\}\s*FENCE : the first closing brace after j that only
\* blanks separate from a fence; 0 if there is none
RECURSIVE LazyEnd(_, _)
LazyEnd(s, e) ==
    IF e > Len(s) THEN 0
    ELSE IF s[e] = RBRACE /\ SkipWs(s, e + 1) <= Len(s) /\ s[SkipWs(s, e + 1)] = FENCE
        THEN e
    ELSE LazyEnd(s, e + 1)

\* the pattern  FENCE(?:json)?\s*(\{.*?\})\s*FENCE  matched at position i
FenceMatchAt(s, i) ==
    IF s[i] # FENCE THEN NoMatch
    ELSE
        LET a == IF i + 1 <= Len(s) /\ s[i + 1] = "json" THEN i + 2 ELSE i + 1
            j == SkipWs(s, a)
        IN  IF j > Len(s) \/ s[j] # LBRACE THEN NoMatch
            ELSE
                LET e == LazyEnd(s, j + 1)
                IN  IF e = 0 THEN NoMatch
                    ELSE [ok |-> TRUE, grp |-> SubSeq(s, j, e)]

\* re.search: the match at the leftmost position that has one
RECURSIVE ReSearch(_, _)
ReSearch(s, i) ==
    IF i > Len(s) THEN NoMatch
    ELSE IF FenceMatchAt(s, i).ok THEN FenceMatchAt(s, i)
    ELSE ReSearch(s, i + 1)

\* Strategy 3: response[find("{") : rfind("}") + 1]
BruteSlice(s) ==
    LET start_index == IndexFrom(s, LBRACE, 1)
        end_index == LastIndex(s, RBRACE, Len(s))
    IN  IF start_index # 0 /\ end_index # 0 /\ end_index > start_index
        THEN [ok |-> TRUE, grp |-> SubSeq(s, start_index, end_index)]
        ELSE NoMatch

\* a fallback that lets unreadable text pass
ManualFallback_pass(s) == Verdict(<<"PASS">>, JStr(s), JArr(<<>>))

\* Strategy 4
ManualFallback(s) == Verdict(<<"MANUAL">>, JStr(s), JArr(<<>>))

ParseJsonResponse(s) ==
    IF JsonLoads(s).ok THEN NormalizeResult(JsonLoads(s).val)
    ELSE
        LET match == ReSearch(s, 1)
        IN  IF match.ok /\ JsonLoads(match.grp).ok
            THEN NormalizeResult(JsonLoads(match.grp).val)
            ELSE
                LET brute == BruteSlice(s)
                IN  IF brute.ok /\ JsonLoads(brute.grp).ok
                    THEN NormalizeResult(JsonLoads(brute.grp).val)
                    ELSE ManualFallback(s)

----------------------------------------------------------------------------
(* The responses a backend may give: a verdict object written by json.dumps *)
(* and wrapped the ways language models wrap it, and other texts.           *)

Absent == [t |-> "absent", v |-> <<>>]

StatusChoices ==
    {Absent, JStr(<<"PASS">>), JStr(<<"pass">>), JStr(<<"FAIL">>), JStr(<<"FIX">>),
     JStr(<<"MANUAL">>), JStr(<<"maybe">>), JNum, JNull}

\* feedback texts may quote code: a closing brace before a fence, and a whole
\* fenced pair of braces, inside the string
FeedbackChoices ==
    {Absent, JStr(<<"ok">>), JStr(<<"x", RBRACE, SP, FENCE>>),
     JStr(<<"use", SP, FENCE, SP, LBRACE, RBRACE, SP, FENCE>>), JNull}

ReasonChoices == {Absent, JStr(<<"why">>)}

ModifiedFile ==
    JObj((<<"path">> :> JStr(<<"a.py">>)) @@ (<<"content">> :> JStr(<<"x", LBRACE, RBRACE>>)))

FilesChoices == {Absent, JArr(<<>>), JArr(<<ModifiedFile>>)}

\* the dict holding the fields that are present
MkDict(st, fb, rs, mf) ==
    LET all == (<<"status">> :> st) @@ (<<"feedback">> :> fb)
               @@ (<<"reason">> :> rs) @@ (<<"modified_files">> :> mf)
        keys == {k \in DOMAIN all : all[k] # Absent}
    IN  [k \in keys |-> all[k]]

VerdictObjects ==
    {MkDict(st, fb, rs, mf) :
        st \in StatusChoices, fb \in FeedbackChoices,
        rs \in ReasonChoices, mf \in FilesChoices}

\* prose: words and blanks
CleanProse == {<<>>, <<"Here", SP, "is", SP>>}
\* text that mentions code holds braces of its own
BraceProse == {<<"see", SP, LBRACE, "x", RBRACE, SP>>}
Prose == CleanProse \cup BraceProse

Styles == {"bare", "fenced_json", "fenced", "unclosed", "trailing"}

Wrap(style, pre, post, text) ==
    IF style = "bare" THEN text
    ELSE IF style = "fenced_json"
        THEN pre \o <<FENCE, "json", SP>> \o text \o <<SP, FENCE>> \o post
    ELSE IF style = "fenced"
        THEN pre \o <<FENCE, SP>> \o text \o <<SP, FENCE>> \o post
    ELSE IF style = "unclosed"
        THEN pre \o <<FENCE, "json", SP>> \o text \o <<SP>>
    ELSE text \o <<SP>> \o post

\* the wrappings of a style: which of pre and post it uses
Wrappings ==
    {w \in [style : Styles, pre : Prose, post : Prose] :
        /\ w.style = "bare" => (w.pre = <<>> /\ w.post = <<>>)
        /\ w.style = "unclosed" => w.post = <<>>
        /\ w.style = "trailing" => (w.pre = <<>> /\ w.post # <<>>)}

PassObj == <<LBRACE, Q, "status", Q, ":", SP, Q, "PASS", Q, RBRACE>>
FailObj == <<LBRACE, Q, "status", Q, ":", SP, Q, "FAIL", Q, RBRACE>>

\* texts that are no wrapped verdict object
OtherResponses ==
    { <<>>,
      <<SP>>,
      <<"I", SP, "refuse">>,
      <<"PASS">>,
      <<"[", "1", "]">>,
      <<"null">>,
      <<"1">>,
      <<"true">>,
      <<Q, "PASS", Q>>,
      <<"[">> \o PassObj \o <<"]">>,
      <<FENCE, "json", SP, "[">> \o PassObj \o <<"]", SP, FENCE>>,
      <<FENCE, "json", SP, LBRACE, Q, "status", Q, ":", SP, Q, "PASS", Q, ",", SP,
        Q, "feedback", Q, ":", SP, Q, "Missing", SP, FENCE>>,
      <<LBRACE, Q, "status", Q, ":", SP, Q, "PASS", Q>>,
      <<LBRACE, "status", ":", SP, "PASS", RBRACE>>,
      <<LBRACE, Q, "status", Q, ":", SP, Q, "PASS", Q, ",", RBRACE>>,
      <<FENCE, SP, LBRACE, "bad", RBRACE, SP, FENCE>>,
      <<FENCE, "json", SP, LBRACE, Q, "status", Q, ":", SP, "PASS", RBRACE, SP, FENCE>>,
      FailObj \o PassObj,
      <<"x", SP>> \o FailObj \o <<SP, "y", SP>> \o PassObj,
      <<FENCE, SP, LBRACE, "bad", RBRACE, SP, FENCE, SP, FENCE, SP>> \o PassObj \o <<SP, FENCE>>,
      <<FENCE, SP>> \o FailObj \o <<SP, FENCE, SP, FENCE, SP>> \o PassObj \o <<SP, FENCE>>,
      <<FENCE, "json", SP>> \o PassObj \o <<SP, FENCE, SP, "and", SP>> \o FailObj,
      <<SP>> \o PassObj \o <<SP>> }

NoOrigin == [kind |-> "none", v |-> JNull, style |-> "", pre |-> <<>>, post |-> <<>>]
NotParsed == [kind |-> "none", exc |-> "", status |-> <<>>, feedback |-> JNull,
              modified_files |-> JNull]

ParserInit ==
    /\ response = <<>>
    /\ origin = NoOrigin
    /\ parsed = NotParsed
    /\ ppc = "idle"

\* the backend answers with a verdict object, wrapped
AnalyzeVerdict ==
    /\ ppc = "idle"
    /\ \E v \in VerdictObjects, w \in Wrappings :
        /\ response' = Wrap(w.style, w.pre, w.post, JsonDumps(JObj(v)))
        /\ origin' = [kind |-> "verdict", v |-> JObj(v), style |-> w.style,
                      pre |-> w.pre, post |-> w.post]
    /\ ppc' = "received"
    /\ UNCHANGED <<parsed, nonParser>>

\* the backend answers with some other text
AnalyzeOther ==
    /\ ppc = "idle"
    /\ \E r \in OtherResponses :
        /\ response' = r
        /\ origin' = [NoOrigin EXCEPT !.kind = "other"]
    /\ ppc' = "received"
    /\ UNCHANGED <<parsed, nonParser>>

\* result = self._parse_json_response(raw_response)
Parse ==
    /\ ppc = "received"
    /\ parsed' = ParseJsonResponse(response)
    /\ ppc' = "parsed"
    /\ UNCHANGED <<response, origin, nonParser>>

ParserNext == AnalyzeVerdict \/ AnalyzeOther \/ Parse


----------------------------------------------------------------------------
(* Claims about the parser, checked under SpecParser                        *)

\* some fenced block of the text, tagged json or not, whose {...} content
\* decodes: any opening fence and any closing brace that blanks separate
\* from a fence, not only the ones the regular expression settles on
AnyFencedJson(s) ==
    \E i \in 1..Len(s), e \in 1..Len(s) :
        /\ s[i] = FENCE
        /\ \E j \in (i + 1)..(e - 1) :
            /\ s[j] = LBRACE
            /\ \/ \A k \in (i + 1)..(j - 1) : s[k] = SP
               \/ /\ s[i + 1] = "json"
                  /\ \A k \in (i + 2)..(j - 1) : s[k] = SP
            /\ s[e] = RBRACE
            /\ \E f \in (e + 1)..Len(s) :
                /\ s[f] = FENCE
                /\ \A k \in (e + 1)..(f - 1) : s[k] = SP
            /\ JsonLoads(SubSeq(s, j, e)).ok

\* the text from its first opening brace to its last closing brace decodes
BruteJson(s) ==
    LET opens == {k \in 1..Len(s) : s[k] = LBRACE}
        closes == {k \in 1..Len(s) : s[k] = RBRACE}
    IN  \E a \in opens, b \in closes :
            /\ \A k \in opens : a <= k
            /\ \A k \in closes : k <= b
            /\ a < b
            /\ JsonLoads(SubSeq(s, a, b)).ok

Undecodable(s) == ~JsonLoads(s).ok /\ ~AnyFencedJson(s) /\ ~BruteJson(s)

\* C1: a text that is not JSON as a whole, holds no fenced block whose {...}
\* content decodes, and whose first-brace-to-last-brace part does not decode,
\* is returned as MANUAL with the whole raw text as feedback and no modified
\* files; its status is never PASS.
C1_UndecodableIsManual ==
    (ppc = "parsed" /\ Undecodable(response))
        => /\ parsed.kind = "verdict"
           /\ parsed.status = <<"MANUAL">>
           /\ parsed.status # <<"PASS">>
           /\ parsed.feedback = JStr(response)
           /\ parsed.modified_files = JArr(<<>>)

\* a fenced json block whose content is broken JSON was parsed to MANUAL
C1_Witness ==
    /\ ppc = "parsed"
    /\ Undecodable(response)
    /\ ReSearch(response, 1).ok
    /\ Len(response) > 3
    /\ response[2] = "json"
    /\ parsed.status = <<"MANUAL">>

\* C6: _parse_json_response never raises; every text yields a verdict.
C6_NeverRaises == ppc = "parsed" => parsed.kind = "verdict"

\* a JSON array was decoded, and normalizing it raised
C6_Witness ==
    /\ ppc = "parsed"
    /\ response = <<"[", "1", "]">>
    /\ parsed.kind = "raised"
    /\ parsed.exc = "AttributeError"

CleanlyWrapped ==
    /\ origin.kind = "verdict"
    /\ origin.pre \in CleanProse
    /\ origin.post \in CleanProse

\* C7: a verdict object written by json.dumps parses to its normalization
\* however it is wrapped: alone, in a fenced block between prose, after prose
\* and an opening fence that is never closed, or before trailing prose.
C7_WrappingIndependence ==
    (ppc = "parsed" /\ CleanlyWrapped) => parsed = NormalizeResult(origin.v)

\* a verdict whose feedback quotes a fenced pair of braces, followed by
\* prose: the quoted pair is what the fenced strategy decodes
C7_Witness ==
    /\ ppc = "parsed"
    /\ CleanlyWrapped
    /\ origin.style = "trailing"
    /\ origin.v = JObj(MkDict(JStr(<<"PASS">>),
                         JStr(<<"use", SP, FENCE, SP, LBRACE, RBRACE, SP, FENCE>>),
                         Absent, Absent))
    /\ parsed = Verdict(<<"FAIL">>, JStr(<<"No feedback">>), JArr(<<>>))

ValidStatuses == {<<"PASS">>, <<"FAIL">>, <<"FIX">>, <<"MANUAL">>}

\* C9: every verdict the parser returns has a status among PASS, FAIL, FIX
\* and MANUAL.
C9_StatusIsValid ==
    (ppc = "parsed" /\ parsed.kind = "verdict") => parsed.status \in ValidStatuses

\* an object with the status "maybe" was returned as MAYBE
C9_Witness ==
    /\ ppc = "parsed"
    /\ origin.kind = "verdict"
    /\ origin.style = "bare"
    /\ origin.v = JObj(MkDict(JStr(<<"maybe">>), Absent, Absent, Absent))
    /\ parsed.kind = "verdict"
    /\ parsed.status = <<"MAYBE">>

\* the object decoded from a text that is a verdict object and nothing else
DecodedWhole == ppc = "parsed" /\ origin.kind = "verdict" /\ origin.style = "bare"

HasKey(d, key) == <<key>> \in DOMAIN d.v

\* C10: after a decode of an object d, status is d.status upper-cased, or
\* FAIL when absent; feedback is d.feedback if present, else d.reason if
\* present, else "No feedback"; modified_files is d.modified_files if
\* present, else the empty list.
C10_Normalization ==
    DecodedWhole =>
        LET d == origin.v
        IN  /\ parsed.kind = "verdict"
            /\ HasKey(d, "status") => parsed.status = Upper(d.v[<<"status">>].v)
            /\ ~HasKey(d, "status") => parsed.status = <<"FAIL">>
            /\ HasKey(d, "feedback") => parsed.feedback = d.v[<<"feedback">>]
            /\ (~HasKey(d, "feedback") /\ HasKey(d, "reason"))
                    => parsed.feedback = d.v[<<"reason">>]
            /\ (~HasKey(d, "feedback") /\ ~HasKey(d, "reason"))
                    => parsed.feedback = JStr(<<"No feedback">>)
            /\ HasKey(d, "modified_files")
                    => parsed.modified_files = d.v[<<"modified_files">>]
            /\ ~HasKey(d, "modified_files") => parsed.modified_files = JArr(<<>>)

\* an object whose status is null was decoded, and normalizing it raised
C10_Witness ==
    /\ DecodedWhole
    /\ HasKey(origin.v, "status")
    /\ origin.v.v[<<"status">>] = JNull
    /\ parsed.kind = "raised"
    /\ parsed.exc = "AttributeError"

\* the three decodes the strategies try, each as the code makes it
WholeDecodes == JsonLoads(response).ok
FencedDecodes == ReSearch(response, 1).ok /\ JsonLoads(ReSearch(response, 1).grp).ok
BruteDecodes == BruteSlice(response).ok /\ JsonLoads(BruteSlice(response).grp).ok

\* the normalization of the decoded value is what the parser returned
ReturnsNormalized(text) ==
    /\ parsed.kind = "verdict"
    /\ parsed = NormalizeResult(JsonLoads(text).val)

\* C24: the strategies are tried in order and the first decode wins: a text
\* that decodes as a whole returns its normalization; otherwise the first
\* fenced block, if its content decodes, returns its normalization, whatever
\* the first-brace-to-last-brace part would give; that part is used only when
\* there is no fenced match or its content does not decode; and the MANUAL
\* fallback is returned only when all three fail
C24_StrategyPrecedence ==
    ppc = "parsed" =>
        /\ WholeDecodes => ReturnsNormalized(response)
        /\ (~WholeDecodes /\ FencedDecodes) =>
              ReturnsNormalized(ReSearch(response, 1).grp)
        /\ (~WholeDecodes /\ ~FencedDecodes /\ BruteDecodes) =>
              ReturnsNormalized(BruteSlice(response).grp)
        /\ parsed = Verdict(<<"MANUAL">>, JStr(response), JArr(<<>>)) <=>
              (~WholeDecodes /\ ~FencedDecodes /\ ~BruteDecodes)

\* a fenced block whose object has the status null was decoded by the second
\* strategy, and normalizing it raised
C24_Witness ==
    /\ ppc = "parsed"
    /\ origin.kind = "verdict"
    /\ origin.style = "fenced_json"
    /\ origin.v = JObj(MkDict(JNull, Absent, Absent, Absent))
    /\ ~WholeDecodes
    /\ FencedDecodes
    /\ parsed.kind = "raised"
    /\ parsed.exc = "AttributeError"

----------------------------------------------------------------------------
(* ConfigLoader._parse (services/config_loader.py).  A raw entry is a dict: *)
(* a function from the keys it holds.  A prompt text is a sequence of words.*)

YStr(x) == [t |-> "str", v |-> <<x>>]
YList(xs) == [t |-> "list", v |-> xs]
YNull == [t |-> "null", v |-> <<>>]

DefaultMaxChars == 16000
DefaultModel == "gpt-3.5-turbo"
NoneId == "<None>"

\* f"inline_{c['id']}"
InlineId(id) == IF id = "c1" THEN "inline_c1" ELSE "inline_c2"

JsonInstruction == <<"IMPORTANT", "Return", "JSON">>

Ok(x) == [exc |-> "", val |-> x]
Raise(e, x) == [exc |-> e, val |-> x]

\* _validate_keys
ValidateKeys(data, valid) == IF DOMAIN data \subseteq valid THEN "" ELSE "ConfigError"

NoDict == [k \in {} |-> 0]

RECURSIVE ParseDefinitions(_, _, _)
ParseDefinitions(raw_defs, i, defs) ==
    IF i > Len(raw_defs) THEN Ok(defs)
    ELSE
        LET d == raw_defs[i]
        IN  IF ValidateKeys(d, {"id", "tag", "cmd"}) # "" THEN Raise("ConfigError", defs)
            ELSE IF "id" \notin DOMAIN d \/ "cmd" \notin DOMAIN d
                THEN Raise("KeyError", defs)
            ELSE ParseDefinitions(raw_defs, i + 1,
                    (d.id :> [id |-> d.id,
                              tag |-> IF "tag" \in DOMAIN d THEN d.tag ELSE d.id,
                              cmd |-> d.cmd]) @@ defs)

\* _resolve_prompt_text: the file's content, or ConfigError when it cannot be read
ResolvePromptText(p_data, file) ==
    IF "file" \in DOMAIN p_data
    THEN IF file.ok THEN Ok(file.text) ELSE Raise("ConfigError", <<>>)
    ELSE Ok(IF "text" \in DOMAIN p_data THEN p_data.text ELSE <<>>)

HasJson(text) == \E k \in 1..Len(text) : text[k] = "JSON"

RECURSIVE ParsePrompts(_, _, _, _)
ParsePrompts(raw_prompts, i, prompts, file) ==
    IF i > Len(raw_prompts) THEN Ok(prompts)
    ELSE
        LET p == raw_prompts[i]
            p_id == IF "id" \in DOMAIN p THEN p.id ELSE NoneId
            text == ResolvePromptText(p, file)
        IN  IF ValidateKeys(p, {"id", "text", "file"}) # "" THEN Raise("ConfigError", prompts)
            ELSE IF text.exc # "" THEN Raise(text.exc, prompts)
            ELSE ParsePrompts(raw_prompts, i + 1,
                    (p_id :> [id |-> p_id,
                              text |-> IF HasJson(text.val) THEN text.val
                                       ELSE text.val \o JsonInstruction]) @@ prompts,
                    file)

CheckKeys ==
    {"id", "prompt_id", "model", "context", "max_chars", "system_prompt",
     "include_patterns", "exclude_patterns"}

\* _parse_checks; st holds the checks built so far and the prompts, to which
\* an inline prompt is added under its virtual id
RECURSIVE ParseChecks(_, _, _)
ParseChecks(raw_checks, i, st) ==
    IF i > Len(raw_checks) THEN Ok(st)
    ELSE
        LET c == raw_checks[i]
            given == IF "prompt_id" \in DOMAIN c THEN c.prompt_id ELSE ""
            inline == given = "" /\ "system_prompt" \in DOMAIN c
            hasId == "id" \in DOMAIN c
            prompt_id == IF inline /\ hasId THEN InlineId(c.id) ELSE given
            prompts2 == IF inline /\ hasId
                        THEN (prompt_id :> [id |-> prompt_id, text |-> c.system_prompt])
                             @@ st.prompts
                        ELSE st.prompts
            raw_context == IF "context" \in DOMAIN c THEN c.context ELSE YList(<<>>)
        IN  IF ValidateKeys(c, CheckKeys) # "" THEN Raise("ConfigError", st)
            \* c['id'] is read for the virtual id, for both messages and for the check
            ELSE IF ~hasId THEN Raise("KeyError", st)
            ELSE IF prompt_id = "" THEN Raise("ConfigError", st)
            ELSE IF prompt_id \notin DOMAIN prompts2 THEN Raise("ConfigError", st)
            ELSE ParseChecks(raw_checks, i + 1,
                    [prompts |-> prompts2,
                     checks |-> Append(st.checks,
                        [id |-> c.id,
                         prompt_id |-> prompt_id,
                         model |-> IF "model" \in DOMAIN c THEN c.model ELSE DefaultModel,
                         context_ids |-> raw_context,
                         max_chars |-> IF "max_chars" \in DOMAIN c THEN c.max_chars
                                       ELSE DefaultMaxChars,
                         include_patterns |-> <<>>,
                         exclude_patterns |-> <<>>])])

\* _validate_references: the first check, and in it the first context id, that
\* fails decides; iterating a context that is None raises TypeError
RECURSIVE ValidateReferences(_, _, _)
ValidateReferences(checks, i, defs) ==
    IF i > Len(checks) THEN ""
    ELSE IF checks[i].context_ids.t = "null" THEN "TypeError"
    ELSE IF \E k \in 1..Len(checks[i].context_ids.v) :
                checks[i].context_ids.v[k] \notin DOMAIN defs
        THEN "ConfigError"
    ELSE ValidateReferences(checks, i + 1, defs)

EmptyConfig == [definitions |-> NoDict, prompts |-> NoDict, checks |-> <<>>]

Returned(c) == [kind |-> "config", exc |-> "", config |-> c]
Failed(e) == [kind |-> "raised", exc |-> e, config |-> EmptyConfig]

\* _parse
ParseConfig(data, file) ==
    LET defs == ParseDefinitions(data.definitions, 1, NoDict)
        prompts == ParsePrompts(data.prompts, 1, NoDict, file)
        st == ParseChecks(data.checks, 1, [prompts |-> prompts.val, checks |-> <<>>])
        refs == ValidateReferences(st.val.checks, 1, defs.val)
    IN  IF defs.exc # "" THEN Failed(defs.exc)
        ELSE IF prompts.exc # "" THEN Failed(prompts.exc)
        ELSE IF st.exc # "" THEN Failed(st.exc)
        ELSE IF refs # "" THEN Failed(refs)
        ELSE Returned([definitions |-> defs.val,
                       prompts |-> st.val.prompts,
                       checks |-> [k \in 1..Len(st.val.checks) |->
                                     [st.val.checks[k] EXCEPT
                                        !.context_ids = st.val.checks[k].context_ids.v]]])

----------------------------------------------------------------------------
(* The configurations a file may hold *)

MaxRawChecks == 2

RawDefLists ==
    { <<>>,
      <<[id |-> "d1", cmd |-> "ls"]>>,
      <<[id |-> "d1", cmd |-> "ls"], [id |-> "d2", tag |-> "diff", cmd |-> "internal:git_diff"]>>,
      <<[id |-> "d1", cmd |-> "ls", command |-> "ls"]>>,
      <<[id |-> "d1"], [id |-> "d2", cmd |-> "ls"]>> }

RawPromptLists ==
    { <<>>,
      <<[id |-> "p1", text |-> <<"Review", "JSON">>]>>,
      <<[id |-> "p1", text |-> <<"Review">>]>>,
      <<[id |-> "p1", file |-> "prompt.md"]>>,
      <<[id |-> "p1", txt |-> <<"Review">>]>> }

RawChecks ==
    { [id |-> "c1", prompt_id |-> "p1", context |-> YList(<<"d1">>)],
      [id |-> "c2", prompt_id |-> "p1", context |-> YStr("d2")],
      [id |-> "c1", prompt_id |-> "p9", context |-> YList(<<"d1">>)],
      [id |-> "c1", system_prompt |-> <<"Be", "strict">>],
      [id |-> "c2", context |-> YList(<<"d1">>)],
      [id |-> "c1", prompt_id |-> "p1", context |-> YList(<<"d1", "ghost">>)],
      [id |-> "c1", prompt_id |-> "p1", cmd |-> "ls"],
      [id |-> "c2", prompt_id |-> "p1", context |-> YNull],
      [prompt_id |-> "p1", context |-> YList(<<"d1">>)],
      [context |-> YList(<<"d1">>)],
      [id |-> "c2", prompt_id |-> "p1", system_prompt |-> <<"Be", "strict">>,
       context |-> YList(<<"d2">>), max_chars |-> 2] }

RECURSIVE SeqsUpTo(_, _)
SeqsUpTo(S, n) ==
    IF n = 0 THEN {<<>>}
    ELSE SeqsUpTo(S, n - 1)
         \cup {Append(q, x) : q \in {r \in SeqsUpTo(S, n - 1) : Len(r) = n - 1}, x \in S}

RawConfigs ==
    [definitions : RawDefLists, prompts : RawPromptLists,
     checks : SeqsUpTo(RawChecks, MaxRawChecks)]

\* what reading the prompt file gives: its words, or an error
FileStates ==
    { [ok |-> FALSE, text |-> <<>>],
      [ok |-> TRUE, text |-> <<"Review">>],
      [ok |-> TRUE, text |-> <<"Review", "JSON">>] }

NoRaw == [definitions |-> <<>>, prompts |-> <<>>, checks |-> <<>>]
NotLoaded == [kind |-> "none", exc |-> "", config |-> EmptyConfig]

LoaderInit ==
    /\ raw = NoRaw
    /\ loaded = NotLoaded
    /\ lpc = "idle"

\* data = yaml.safe_load(f) or {}
ReadConfig ==
    /\ lpc = "idle"
    /\ raw' \in RawConfigs
    /\ lpc' = "read"
    /\ UNCHANGED <<loaded, nonLoader>>

\* return self._parse(data)
ParseRaw ==
    /\ lpc = "read"
    /\ \E file \in FileStates : loaded' = ParseConfig(raw, file)
    /\ lpc' = "parsed"
    /\ UNCHANGED <<raw, nonLoader>>

LoaderNext == ReadConfig \/ ParseRaw

\* no check names a prompt or a context that the configuration lacks
NoDanglingReference(c) ==
    \A k \in 1..Len(c.checks) :
        /\ c.checks[k].prompt_id \in DOMAIN c.prompts
        /\ \A n \in 1..Len(c.checks[k].context_ids) :
               c.checks[k].context_ids[n] \in DOMAIN c.definitions

\* C2: _parse either raises ConfigError or returns a Config in which every
\* check's prompt_id is a key of prompts and every context id of every check
\* is a key of definitions.
C2_ConfigErrorOrResolved ==
    lpc = "parsed" =>
        \/ loaded.kind = "raised" /\ loaded.exc = "ConfigError"
        \/ loaded.kind = "config" /\ NoDanglingReference(loaded.config)

\* a definition without cmd was parsed, and KeyError was raised
C2_Witness ==
    /\ lpc = "parsed"
    /\ raw.definitions = <<[id |-> "d1"], [id |-> "d2", cmd |-> "ls"]>>
    /\ loaded.kind = "raised"
    /\ loaded.exc = "KeyError"

AllowedKeys ==
    [definitions |-> {"id", "tag", "cmd"},
     prompts |-> {"id", "text", "file"},
     checks |-> {"id", "prompt_id", "model", "context", "max_chars", "system_prompt",
                 "include_patterns", "exclude_patterns"}]

\* some entry of the file holds a key outside the allowed keys of its kind
HasUnknownKey(data) ==
    \E kind \in {"definitions", "prompts", "checks"} :
        \E k \in 1..Len(data[kind]) : ~(DOMAIN data[kind][k] \subseteq AllowedKeys[kind])

\* some check names no prompt and carries no inline prompt
HasPromptlessCheck(data) ==
    \E k \in 1..Len(data.checks) :
        /\ "prompt_id" \notin DOMAIN data.checks[k]
        /\ "system_prompt" \notin DOMAIN data.checks[k]

\* C17: _parse raises ConfigError whenever an entry holds a key outside its
\* allowed keys, and whenever a check has neither prompt_id nor
\* system_prompt; no Config is returned then.
C17_BadEntryIsConfigError ==
    (lpc = "parsed" /\ (HasUnknownKey(raw) \/ HasPromptlessCheck(raw)))
        => (loaded.kind = "raised" /\ loaded.exc = "ConfigError")

\* a check with neither id nor prompt was parsed, and KeyError was raised
C17_Witness ==
    /\ lpc = "parsed"
    /\ raw.definitions = <<[id |-> "d1", cmd |-> "ls"]>>
    /\ raw.checks = <<[context |-> YList(<<"d1">>)]>>
    /\ HasPromptlessCheck(raw)
    /\ loaded.kind = "raised"
    /\ loaded.exc = "KeyError"

\* C18: in every Config the loader returns, the text of every prompt holds
\* "JSON": prompts given as text, prompts read from a file and prompts made
\* from the system_prompt of a check.
C18_EveryPromptAsksForJson ==
    (lpc = "parsed" /\ loaded.kind = "config") =>
        \A id \in DOMAIN loaded.config.prompts :
            \E k \in 1..Len(loaded.config.prompts[id].text) :
                loaded.config.prompts[id].text[k] = "JSON"

\* a Config was returned whose inline prompt is the system_prompt as given
C18_Witness ==
    /\ lpc = "parsed"
    /\ loaded.kind = "config"
    /\ "inline_c1" \in DOMAIN loaded.config.prompts
    /\ loaded.config.prompts["inline_c1"].text = <<"Be", "strict">>

----------------------------------------------------------------------------
(* ReviewEngine (engine.py): build_context and run_check.  A command output *)
(* and a context are sequences of characters and longer atoms; a length is  *)
(* counted in atoms.                                                        *)

NL == "\n"

\* not s.strip()
IsBlank(s) == \A k \in 1..Len(s) : s[k] \in {SP, NL}

\* a stripping that is forgotten: only the empty output counts as blank
IsBlankOutput_emptyOnly(output) == output = <<>>

\* not output or not output.strip()
IsBlankOutput(output) == output = <<>> \/ IsBlank(output)

\* a ceiling that looks at the current output alone
ExceedsLimit_currentOnly(total_chars, output_len, max_chars) == output_len > max_chars

\* total_chars + output_len > check.max_chars
ExceedsLimit(total_chars, output_len, max_chars) == total_chars + output_len > max_chars

\* a block that leaves the tag of the definition out
Block_untagged(tag, output) ==
    <<"### Context: ", NL, FENCE, "text", NL>> \o output \o <<NL, FENCE, NL>>

\* f"### Context: {definition.tag}\n```text\n{output}\n```\n"
Block(tag, output) ==
    <<"### Context: ", tag, NL, FENCE, "text", NL>> \o output \o <<NL, FENCE, NL>>

\* "\n".join(buffer)
RECURSIVE Join(_)
Join(buffer) ==
    IF buffer = <<>> THEN <<>>
    ELSE IF Len(buffer) = 1 THEN buffer[1]
    ELSE buffer[1] \o <<NL>> \o Join(Tail(buffer))

\* what the runner gave for one command: an output, or CommandError
RunOk(output) == [err |-> FALSE, out |-> output]
RunFailed == [err |-> TRUE, out |-> <<>>]

\* an iteration that takes a failed command for a blank output
BuildIteration_swallow(cfg, check, st, res) ==
    LET ctx_id == check.context_ids[st.i]
        next == [st EXCEPT !.i = st.i + 1]
    IN  IF ctx_id \notin DOMAIN cfg.definitions THEN next
        ELSE IF res.err THEN next
        ELSE IF IsBlankOutput(res.out) THEN next
        ELSE IF ExceedsLimit(st.total_chars, Len(res.out), check.max_chars)
            THEN [st EXCEPT !.raised = TRUE]
        ELSE [next EXCEPT !.total_chars = st.total_chars + Len(res.out),
                          !.buffer = Append(st.buffer,
                                        Block(cfg.definitions[ctx_id].tag, res.out))]

\* one iteration of build_context's loop; res is what the runner gave, and is
\* not looked at when the context id has no definition
BuildIteration(cfg, check, st, res) ==
    LET ctx_id == check.context_ids[st.i]
        next == [st EXCEPT !.i = st.i + 1]
    IN  IF ctx_id \notin DOMAIN cfg.definitions THEN next
        ELSE IF res.err THEN [st EXCEPT !.raised = TRUE]
        ELSE IF IsBlankOutput(res.out) THEN next
        ELSE IF ExceedsLimit(st.total_chars, Len(res.out), check.max_chars)
            THEN [st EXCEPT !.raised = TRUE]
        ELSE [next EXCEPT !.total_chars = st.total_chars + Len(res.out),
                          !.buffer = Append(st.buffer,
                                        Block(cfg.definitions[ctx_id].tag, res.out))]

\* next((c for c in self.config.checks if c.id == check_id), None): the
\* position of the first check with this id, 0 for None
FindCheck(cfg, check_id) ==
    IF \E k \in 1..Len(cfg.checks) : cfg.checks[k].id = check_id
    THEN CHOOSE k \in 1..Len(cfg.checks) :
            /\ cfg.checks[k].id = check_id
            /\ \A j \in 1..(k - 1) : cfg.checks[j].id # check_id
    ELSE 0

\* the truth value Python gives a decoded JSON value
Truthy(x) ==
    CASE x.t = "null" -> FALSE
      [] x.t = "arr" -> x.v # <<>>
      [] x.t = "str" -> x.v # <<>>
      [] x.t = "obj" -> DOMAIN x.v # {}
      [] OTHER -> TRUE

\* a mapping in which a FIX without files to modify does not block
ReturnFor_fixPasses(status, modified_files) ==
    IF status = <<"PASS">> THEN "True"
    ELSE IF status = <<"FAIL">> THEN "False"
    ELSE IF status = <<"FIX">> THEN (IF Truthy(modified_files) THEN "False" ELSE "True")
    ELSE "True"

\* the value run_check returns for a parsed status
ReturnFor(status, modified_files) ==
    IF status = <<"PASS">> THEN "True"
    ELSE IF status = <<"FAIL">> THEN "False"
    ELSE IF status = <<"FIX">> THEN "False"
    ELSE "True"

\* status == "FIX" and modified_files: the patch manager is called
CallsPatchManager(status, modified_files) ==
    status = <<"FIX">> /\ Truthy(modified_files)

\* the outcome reported for a parsed status
OutcomeFor(status) ==
    IF status \in {<<"PASS">>, <<"FAIL">>, <<"FIX">>} THEN status[1] ELSE "OTHER"

----------------------------------------------------------------------------
(* The configurations an engine may be built with, what its commands may    *)
(* print and what its backend may answer                                    *)

MaxOutLen == 2

Definitions ==
    ("d1" :> [id |-> "d1", tag |-> "files", cmd |-> "ls"])
    @@ ("d2" :> [id |-> "d2", tag |-> "d2", cmd |-> "internal:git_diff"])

Prompts == ("p1" :> [id |-> "p1", text |-> <<"Review">> \o JsonInstruction])

\* "ghost" has no definition: the loader refuses such a configuration, the
\* engine skips the id
ContextChoices == {<<>>, <<"d1">>, <<"d1", "d2">>, <<"ghost", "d1">>}

MaxCharsChoices == {1, 3}

MkCheck(id, prompt_id, context_ids, max_chars) ==
    [id |-> id, prompt_id |-> prompt_id, model |-> DefaultModel,
     context_ids |-> context_ids, max_chars |-> max_chars,
     include_patterns |-> <<>>, exclude_patterns |-> <<>>]

\* two checks; the second may repeat the id of the first
EngineConfigs ==
    {[definitions |-> Definitions, prompts |-> Prompts,
      checks |-> <<MkCheck("c1", pr, ctx, mc), MkCheck(id2, "p1", <<"d2">>, 3)>>] :
        pr \in {"p1", "p9"}, ctx \in ContextChoices, mc \in MaxCharsChoices,
        id2 \in {"c1", "c2"}}

Outputs == SeqsUpTo({"x", SP}, MaxOutLen)

RunResults == {RunOk(o) : o \in Outputs} \cup {RunFailed}

\* override_context: None, or the text of the --context-file
NoOverride == [given |-> FALSE, text |-> <<>>]
Override(text) == [given |-> TRUE, text |-> text]

Overrides ==
    {NoOverride, Override(<<>>), Override(<<SP>>), Override(<<"x", "x">>),
     Override(<<"x", "x", "x", "x">>)}

\* if override_context:
OverrideGiven(o) == o.given /\ o.text # <<>>

CheckIds == {"c1", "c2", "c9"}

FixObj(files) ==
    JsonDumps(JObj(MkDict(JStr(<<"FIX">>), JStr(<<"ok">>), Absent, files)))

EngineResponses ==
    { PassObj,
      <<FENCE, "json", SP>> \o JsonDumps(JObj(MkDict(JStr(<<"pass">>), Absent, Absent, Absent)))
          \o <<SP, FENCE>>,
      <<"Sure", SP>> \o FailObj,
      FixObj(Absent),
      FixObj(JArr(<<>>)),
      <<FENCE, SP>> \o FixObj(JArr(<<ModifiedFile>>)),
      JsonDumps(JObj(MkDict(JStr(<<"MANUAL">>), JStr(<<"ok">>), Absent, Absent))),
      JsonDumps(JObj(MkDict(JStr(<<"maybe">>), Absent, JStr(<<"why">>), Absent))),
      <<"I", SP, "refuse">>,
      <<"[", "1", "]">> }

\* the calls made to the collaborators, in the order they were made
Event(ev) == [ev |-> ev, id |-> "", err |-> FALSE, out |-> <<>>, made |-> FALSE]
RunEvent(ctx_id, res) == [Event("run") EXCEPT !.id = ctx_id, !.err = res.err, !.out = res.out]
PatchEvent(made) == [Event("patch") EXCEPT !.made = made]

NoCheck == [check_id |-> "", override |-> NoOverride, k |-> 0]
NotAssembled == [i |-> 1, buffer |-> <<>>, total_chars |-> 0, raised |-> FALSE]

\* the engine between two calls of run_check
EngineIdle(cfg) ==
    /\ config = cfg
    /\ epc = "idle"
    /\ cur = NoCheck
    /\ asm = NotAssembled
    /\ context = <<>>
    /\ log = <<>>
    /\ answer = <<>>
    /\ verdict = NotParsed
    /\ ret = "none"
    /\ outcome = ""

EngineInit == \E cfg \in EngineConfigs : EngineIdle(cfg)

\* no call of build_context is remembered
NoBuild == [seen |-> FALSE, k |-> 0, outs |-> <<>>, raised |-> FALSE, text |-> <<>>]
NoHistory == seen_build = NoBuild

\* run_check returns, or raises
Finish(value, how) ==
    /\ ret' = value
    /\ outcome' = how
    /\ epc' = "done"

\* run_check, up to its first call of a collaborator
RunCheck ==
    /\ epc = "idle"
    /\ \E check_id \in CheckIds, override \in Overrides :
        LET k == FindCheck(config, check_id)
            check == config.checks[k]
        IN  /\ cur' = [check_id |-> check_id, override |-> override, k |-> k]
            /\ IF k = 0
               THEN /\ Finish("False", "no_check")
                    /\ UNCHANGED context
               ELSE IF OverrideGiven(override)
               THEN IF Len(override.text) > check.max_chars
                    THEN /\ Finish("False", "override_too_large")
                         /\ UNCHANGED context
                    ELSE /\ context' = override.text
                         /\ epc' = "assembled"
                         /\ UNCHANGED <<ret, outcome>>
               ELSE IF check.context_ids = <<>>
               THEN /\ context' = Join(<<>>)
                    /\ epc' = "assembled"
                    /\ UNCHANGED <<ret, outcome>>
               ELSE /\ epc' = "building"
                    /\ UNCHANGED <<context, ret, outcome>>
    /\ UNCHANGED <<config, asm, log, answer, verdict, nonEngine>>

\* build_context: one context id, with the command it runs
BuildContextStep ==
    /\ epc = "building"
    /\ \E res \in RunResults :
        LET check == config.checks[cur.k]
            ctx_id == check.context_ids[asm.i]
            st == BuildIteration(config, check, asm, res)
        IN  /\ asm' = st
            /\ log' = IF ctx_id \in DOMAIN config.definitions
                      THEN Append(log, RunEvent(ctx_id, res)) ELSE log
            /\ IF st.raised
               THEN /\ Finish("False", "context_error")
                    /\ UNCHANGED context
               ELSE IF st.i > Len(check.context_ids)
               THEN /\ context' = Join(st.buffer)
                    /\ epc' = "assembled"
                    /\ UNCHANGED <<ret, outcome>>
               ELSE UNCHANGED <<epc, context, ret, outcome>>
    /\ UNCHANGED <<config, cur, answer, verdict, nonEngine>>

\* run_check from the context to the answer of the provider
Analyze ==
    /\ epc = "assembled"
    /\ LET check == config.checks[cur.k]
       IN  IF IsBlank(context)
           THEN /\ Finish("True", "skipped")
                /\ UNCHANGED <<log, answer>>
           \* prompt_def is None: prompt_def.text raises
           ELSE IF check.prompt_id \notin DOMAIN config.prompts
           THEN /\ Finish("raised", "AttributeError")
                /\ UNCHANGED <<log, answer>>
           ELSE /\ log' = log \o <<Event("get_provider"), Event("analyze")>>
                /\ answer' \in EngineResponses
                /\ epc' = "answered"
                /\ UNCHANGED <<ret, outcome>>
    /\ UNCHANGED <<config, cur, asm, context, verdict, nonEngine>>

\* run_check from the answer to its return
Report ==
    /\ epc = "answered"
    /\ LET result == ParseJsonResponse(answer)
       IN  /\ verdict' = result
           /\ IF result.kind = "raised"
              THEN /\ Finish("raised", result.exc)
                   /\ UNCHANGED log
              ELSE /\ Finish(ReturnFor(result.status, result.modified_files),
                             OutcomeFor(result.status))
                   /\ IF CallsPatchManager(result.status, result.modified_files)
                      THEN \E made \in BOOLEAN : log' = Append(log, PatchEvent(made))
                      ELSE UNCHANGED log
    /\ UNCHANGED <<config, cur, asm, context, answer, nonEngine>>

\* an engine that keeps the running total of build_context between calls
Reset_keepsTotal ==
    /\ epc = "done"
    /\ epc' = "idle"
    /\ cur' = NoCheck
    /\ asm' = [NotAssembled EXCEPT !.total_chars = asm.total_chars]
    /\ context' = <<>>
    /\ log' = <<>>
    /\ answer' = <<>>
    /\ verdict' = NotParsed
    /\ ret' = "none"
    /\ outcome' = ""

\* buffer = [], total_chars = 0: the locals of run_check and build_context
\* are gone when it returns
Reset ==
    /\ epc = "done"
    /\ epc' = "idle"
    /\ cur' = NoCheck
    /\ asm' = NotAssembled
    /\ context' = <<>>
    /\ log' = <<>>
    /\ answer' = <<>>
    /\ verdict' = NotParsed
    /\ ret' = "none"
    /\ outcome' = ""

\* the caller has the result; the engine is ready for the next check
Return == Reset /\ UNCHANGED <<config, nonEngine>>

EngineNext == RunCheck \/ BuildContextStep \/ Analyze \/ Report \/ Return

----------------------------------------------------------------------------
(* The legacy engine (core.py): ReviewEngine.build_context, which truncates *)
(* instead of failing, _parse_json_response and run_check.  It is built     *)
(* with a Config, a runner and one provider; the variables of the engine    *)
(* hold its state.                                                          *)

\* "\n... [TRUNCATED]", character by character
TruncatedMarker ==
    <<NL, ".", ".", ".", SP, "[", "T", "R", "U", "N", "C", "A", "T", "E", "D", "]">>

\* output[:n]: the first n characters, or for a negative n all but the last
\* -n characters
SliceTo(output, n) ==
    IF n >= 0 THEN SubSeq(output, 1, IF n < Len(output) THEN n ELSE Len(output))
    ELSE SubSeq(output, 1, Len(output) + n)

\* a loop that truncates and goes on to the next context id
LegacyIteration_goesOn(cfg, check, st, res) ==
    LET ctx_id == check.context_ids[st.i]
        next == [st EXCEPT !.i = st.i + 1]
        remaining_chars == check.max_chars - st.total_chars
        output == IF Len(res.out) > remaining_chars
                  THEN SliceTo(res.out, remaining_chars) \o TruncatedMarker
                  ELSE res.out
    IN  IF ctx_id \notin DOMAIN cfg.definitions THEN next
        ELSE IF res.err THEN [st EXCEPT !.raised = TRUE]
        ELSE IF IsBlankOutput(res.out) THEN next
        ELSE [next EXCEPT !.total_chars = st.total_chars + Len(output),
                          !.buffer = Append(st.buffer,
                                        Block(cfg.definitions[ctx_id].tag, output))]

\* one iteration of the legacy build_context's loop; break leaves the loop,
\* which the position past the last context id stands for
LegacyIteration(cfg, check, st, res) ==
    LET ctx_id == check.context_ids[st.i]
        next == [st EXCEPT !.i = st.i + 1]
        remaining_chars == check.max_chars - st.total_chars
        output == IF Len(res.out) > remaining_chars
                  THEN SliceTo(res.out, remaining_chars) \o TruncatedMarker
                  ELSE res.out
        total_chars == st.total_chars + Len(output)
    IN  IF ctx_id \notin DOMAIN cfg.definitions THEN next
        ELSE IF res.err THEN [st EXCEPT !.raised = TRUE]
        ELSE IF IsBlankOutput(res.out) THEN next
        ELSE [st EXCEPT !.i = IF total_chars >= check.max_chars
                               THEN Len(check.context_ids) + 1 ELSE st.i + 1,
                        !.total_chars = total_chars,
                        !.buffer = Append(st.buffer,
                                      Block(cfg.definitions[ctx_id].tag, output))]

\* "FAIL" in response.upper(), on the words of the text
MentionsFail(s) == \E k \in 1..Len(s) : UpperAtom(s[k]) = "FAIL"

\* the dict the legacy parser makes up for a text it cannot decode; the
\* texts of the model are shorter than the 50 characters it quotes
GuessedResult(status, why, s) ==
    JObj((<<"status">> :> JStr(<<status>>))
         @@ (<<"reason">> :> JStr(<<why, SP, "Raw: ">> \o s)))

\* the legacy _parse_json_response: the decoded value, as it is, or a guess
LegacyParse(s) ==
    IF JsonLoads(s).ok THEN JsonLoads(s).val
    ELSE
        LET match == ReSearch(s, 1)
        IN  IF match.ok /\ JsonLoads(match.grp).ok THEN JsonLoads(match.grp).val
            ELSE IF MentionsFail(s)
                THEN GuessedResult("FAIL", "Could not parse JSON, but keyword FAIL found.", s)
            ELSE GuessedResult("PASS", "Could not parse JSON, assumed PASS.", s)

\* result.get("status", "FAIL").upper() and result.get("reason", ...): what
\* the legacy run_check reads from the parsed result
LegacyVerdict(result) ==
    IF result.t # "obj" THEN Raised("AttributeError")
    ELSE
        LET st == DictGet(result.v, "status", JStr(<<"FAIL">>))
        IN  IF st.t # "str" THEN Raised("AttributeError")
            ELSE Verdict(Upper(st.v),
                         DictGet(result.v, "reason", JStr(<<"No reason provided">>)),
                         JArr(<<>>))

\* the legacy run_check, up to its first call of a collaborator
LegacyRunCheck ==
    /\ epc = "idle"
    /\ \E check_id \in CheckIds :
        LET k == FindCheck(config, check_id)
            check == config.checks[k]
        IN  /\ cur' = [check_id |-> check_id, override |-> NoOverride, k |-> k]
            /\ IF k = 0
               THEN /\ Finish("False", "no_check")
                    /\ UNCHANGED context
               ELSE IF check.context_ids = <<>>
               THEN /\ context' = Join(<<>>)
                    /\ epc' = "assembled"
                    /\ UNCHANGED <<ret, outcome>>
               ELSE /\ epc' = "building"
                    /\ UNCHANGED <<context, ret, outcome>>
    /\ UNCHANGED <<config, asm, log, answer, verdict, nonEngine>>

\* the legacy build_context: one context id, with the command it runs
LegacyBuildStep ==
    /\ epc = "building"
    /\ \E res \in RunResults :
        LET check == config.checks[cur.k]
            ctx_id == check.context_ids[asm.i]
            st == LegacyIteration(config, check, asm, res)
        IN  /\ asm' = st
            /\ log' = IF ctx_id \in DOMAIN config.definitions
                      THEN Append(log, RunEvent(ctx_id, res)) ELSE log
            /\ IF st.raised
               THEN /\ Finish("False", "context_error")
                    /\ UNCHANGED context
               ELSE IF st.i > Len(check.context_ids)
               THEN /\ context' = Join(st.buffer)
                    /\ epc' = "assembled"
                    /\ UNCHANGED <<ret, outcome>>
               ELSE UNCHANGED <<epc, context, ret, outcome>>
    /\ UNCHANGED <<config, cur, answer, verdict, nonEngine>>

\* the legacy run_check from the context to the answer of the provider
LegacyAnalyze ==
    /\ epc = "assembled"
    /\ LET check == config.checks[cur.k]
       IN  IF IsBlank(context)
           THEN /\ Finish("True", "skipped")
                /\ UNCHANGED <<log, answer>>
           \* prompt_def is None: prompt_def.text raises
           ELSE IF check.prompt_id \notin DOMAIN config.prompts
           THEN /\ Finish("raised", "AttributeError")
                /\ UNCHANGED <<log, answer>>
           ELSE /\ log' = Append(log, Event("analyze"))
                /\ answer' \in EngineResponses
                /\ epc' = "answered"
                /\ UNCHANGED <<ret, outcome>>
    /\ UNCHANGED <<config, cur, asm, context, verdict, nonEngine>>

\* the legacy run_check from the answer to its return: status == "PASS"
LegacyReport ==
    /\ epc = "answered"
    /\ LET result == LegacyVerdict(LegacyParse(answer))
       IN  /\ verdict' = result
           /\ IF result.kind = "raised"
              THEN Finish("raised", result.exc)
              ELSE IF result.status = <<"PASS">>
              THEN Finish("True", "PASS")
              ELSE Finish("False", "FAIL")
    /\ UNCHANGED <<config, cur, asm, context, log, answer, nonEngine>>

LegacyNext ==
    LegacyRunCheck \/ LegacyBuildStep \/ LegacyAnalyze \/ LegacyReport \/ Return

----------------------------------------------------------------------------
(* Claims about the engine, checked under Spec                              *)

WhitespaceOnly(s) == \A k \in 1..Len(s) : s[k] \in {SP, NL}

\* a check was found and its context is built from its commands
Building == cur.k # 0 /\ ~(cur.override.given /\ Len(cur.override.text) > 0)

ProviderCalled == \E k \in 1..Len(log) : log[k].ev \in {"get_provider", "analyze"}

PatchCalled == \E k \in 1..Len(log) : log[k].ev = "patch"

CommandFailed == \E k \in 1..Len(log) : log[k].ev = "run" /\ log[k].err

\* every command that ran printed nothing but whitespace
AllOutputsBlank ==
    \A k \in 1..Len(log) : log[k].ev = "run" => ~log[k].err /\ WhitespaceOnly(log[k].out)

RECURSIVE NonBlankTotal(_)
NonBlankTotal(events) ==
    IF events = <<>> THEN 0
    ELSE (IF events[1].ev = "run" /\ ~events[1].err /\ ~WhitespaceOnly(events[1].out)
          THEN Len(events[1].out) ELSE 0)
         + NonBlankTotal(Tail(events))

BlockOverhead == Len(Block("", <<>>))

\* the raw lengths of the outputs included in the buffer
RECURSIVE IncludedTotal(_)
IncludedTotal(buffer) ==
    IF buffer = <<>> THEN 0
    ELSE Len(buffer[1]) - BlockOverhead + IncludedTotal(Tail(buffer))

\* C4: when the non-blank outputs accepted so far plus the current non-blank
\* output are longer than max_chars, build_context raises, run_check returns
\* False and the provider is neither obtained nor invoked; when build_context
\* returns normally the included outputs are together at most max_chars long,
\* and a total of exactly max_chars is accepted.
C4_FailSafeCeiling ==
    Building =>
        LET max_chars == config.checks[cur.k].max_chars
        IN  /\ NonBlankTotal(log) > max_chars =>
                (epc = "done" /\ ret = "False" /\ ~ProviderCalled)
            /\ epc \in {"assembled", "answered"} =>
                /\ IncludedTotal(asm.buffer) = NonBlankTotal(log)
                /\ IncludedTotal(asm.buffer) <= max_chars
            /\ (epc = "done" /\ ~CommandFailed /\ NonBlankTotal(log) <= max_chars) =>
                outcome # "context_error"

\* the second output breaches the ceiling that each output alone respects
C4_Witness ==
    /\ epc = "done"
    /\ Building
    /\ Len(log) = 2
    /\ Len(log[1].out) <= config.checks[cur.k].max_chars
    /\ Len(log[2].out) <= config.checks[cur.k].max_chars
    /\ NonBlankTotal(log) > config.checks[cur.k].max_chars
    /\ ret = "False"

\* C5: when the runner raises CommandError for a context id, run_check
\* returns False, the provider is neither obtained nor invoked, and no
\* command of a later context id is executed.
C5_CommandErrorStops ==
    \A k \in 1..Len(log) :
        (log[k].ev = "run" /\ log[k].err) =>
            /\ k = Len(log)
            /\ epc = "done"
            /\ ret = "False"

\* the first of two commands failed
C5_Witness ==
    /\ epc = "done"
    /\ Building
    /\ config.checks[cur.k].context_ids = <<"d1", "d2">>
    /\ Len(log) = 1
    /\ log[1].ev = "run" /\ log[1].id = "d1" /\ log[1].err
    /\ ret = "False"

NonEmptyList(x) == x.t = "arr" /\ Len(x.v) > 0

CommandRan == \E k \in 1..Len(log) : log[k].ev = "run"

\* C21: when a context file is supplied, whatever it holds (an empty file
\* included), run_check takes the content of the file as the context and
\* executes no command of the check; a content longer than max_chars makes
\* run_check return False without obtaining or invoking the provider.
C21_ContextFileBypassesCommands ==
    (cur.k # 0 /\ cur.override.given) =>
        /\ ~CommandRan
        /\ epc \in {"assembled", "answered"} => context = cur.override.text
        /\ Len(cur.override.text) > config.checks[cur.k].max_chars =>
              (epc = "done" /\ ret = "False" /\ ~ProviderCalled)

\* an empty context file was supplied and a command of the check ran
C21_Witness ==
    /\ cur.k # 0
    /\ cur.override.given
    /\ cur.override.text = <<>>
    /\ CommandRan

\* the commands that ran, in the order they ran
RunEvents == SelectSeq(log, LAMBDA e : e.ev = "run")

\* the context ids of the check that have a definition, in declared order
DefinedIds ==
    SelectSeq(config.checks[cur.k].context_ids,
              LAMBDA id : id \in DOMAIN config.definitions)

\* the block of a command that printed a non-blank output
TaggedBlock(e) ==
    <<"### Context: ", config.definitions[e.id].tag, NL, FENCE, "text", NL>>
        \o e.out \o <<NL, FENCE, NL>>

\* the blocks of the non-blank outputs, one newline between two blocks
RECURSIVE BlocksJoined(_)
BlocksJoined(events) ==
    IF events = <<>> THEN <<>>
    ELSE IF WhitespaceOnly(events[1].out) THEN BlocksJoined(Tail(events))
    ELSE LET rest == BlocksJoined(Tail(events)) IN
         IF rest = <<>> THEN TaggedBlock(events[1])
         ELSE TaggedBlock(events[1]) \o <<NL>> \o rest

BuildOuts ==
    [k \in 1..Len(RunEvents) |-> [err |-> RunEvents[k].err, out |-> RunEvents[k].out]]

\* an observer of the engine: the first call of build_context it chooses to
\* note is kept, with the check, the outputs of the commands and the result
\* (the text, or CommandError); the engine goes on as it does in Return
NoteBuild ==
    /\ Building
    /\ ~seen_build.seen
    /\ seen_build' = [seen |-> TRUE, k |-> cur.k, outs |-> BuildOuts,
                      raised |-> asm.raised,
                      text |-> IF asm.raised THEN <<>> ELSE context]
    /\ Reset
    /\ UNCHANGED <<config, pvars, lvars, fvars, mvars, rvars>>

RepeatNext == EngineNext \/ NoteBuild

\* the running call of build_context is for the check of the noted call and
\* its commands gave the same outputs
SameCallAgain ==
    /\ epc = "done"
    /\ Building
    /\ seen_build.seen
    /\ seen_build.k = cur.k
    /\ seen_build.outs = BuildOuts

\* C23: two calls of build_context for the same check whose commands give
\* the same outputs give the same result, the same text or CommandError in
\* both, whatever checks ran in between
C23_BuildContextRepeatable ==
    SameCallAgain =>
        /\ seen_build.raised = asm.raised
        /\ ~asm.raised => seen_build.text = context

\* a context of two blocks was built a second time
C23_Witness ==
    /\ SameCallAgain
    /\ ~asm.raised
    /\ Len(asm.buffer) = 2
    /\ seen_build.text = context

\* the positions of the log that hold a call of this kind
Calls(ev) == {k \in 1..Len(log) : log[k].ev = ev}

\* the context obtained is within the ceiling of the check
WithinCeiling ==
    IF Building THEN NonBlankTotal(log) <= config.checks[cur.k].max_chars
    ELSE Len(cur.override.text) <= config.checks[cur.k].max_chars

TerminalOutcomes ==
    {"skipped", "context_error", "override_too_large", "PASS", "FAIL", "FIX", "OTHER"}

\* C25: in one run_check every command of the check has finished before the
\* provider is obtained; analyze is called at most once, and only with a
\* non-blank context within the ceiling; the response is parsed only after
\* analyze returned; the patch manager is called only after a parsed FIX
\* verdict; and a run_check that found its check ends in exactly one of
\* skipped, context error, PASS, FAIL, FIX and MANUAL/other
C25_EventOrdering ==
    /\ \A r \in Calls("run"), p \in Calls("get_provider") : r < p
    /\ \A p \in Calls("get_provider"), a \in Calls("analyze") : p < a
    /\ Cardinality(Calls("analyze")) <= 1
    /\ Calls("analyze") # {} => (~WhitespaceOnly(context) /\ WithinCeiling)
    /\ verdict.kind # "none" => (Calls("analyze") # {} /\ epc = "done")
    /\ \A q \in Calls("patch") :
          /\ verdict.kind = "verdict" /\ verdict.status = <<"FIX">>
          /\ \A a \in Calls("analyze") : a < q
    /\ (epc = "done" /\ cur.k # 0) =>
          (ret \in {"True", "False"} /\ outcome \in TerminalOutcomes)

\* the commands ran, the provider answered with a JSON array, and run_check
\* ended with the AttributeError of the parser
C25_Witness ==
    /\ epc = "done"
    /\ cur.k # 0
    /\ Calls("run") # {}
    /\ Calls("analyze") # {}
    /\ answer = <<"[", "1", "]">>
    /\ ret = "raised"
    /\ outcome = "AttributeError"

\* C26: run_check returns True only when the check was skipped for a blank
\* context or the parsed status is exactly PASS or MANUAL; every other
\* status the parser can produce returns False
C26_GateSafety ==
    (epc = "done" /\ cur.k # 0) =>
        /\ ret = "True" =>
              \/ outcome = "skipped"
              \/ verdict.kind = "verdict" /\ verdict.status \in {<<"PASS">>, <<"MANUAL">>}
        /\ (verdict.kind = "verdict" /\ verdict.status \notin {<<"PASS">>, <<"MANUAL">>}) =>
              ret = "False"

\* the provider answered with the status "maybe": the parser returned MAYBE
\* and run_check returned True
C26_Witness ==
    /\ epc = "done"
    /\ cur.k # 0
    /\ verdict.kind = "verdict"
    /\ verdict.status = <<"MAYBE">>
    /\ ret = "True"

\* the prompt of the running check is no key of Config.prompts
PromptMissing ==
    cur.k # 0 /\ config.checks[cur.k].prompt_id \notin DOMAIN config.prompts

\* C27: for a check whose prompt_id is no key of Config.prompts, run_check
\* returns False and the provider is never called, whatever the context holds
C27_MissingPromptFails ==
    (epc = "done" /\ PromptMissing) => (ret = "False" /\ ~ProviderCalled)

\* the prompt is missing and the command printed a blank: run_check skipped
\* the check and returned True
C27_Witness ==
    /\ epc = "done"
    /\ PromptMissing
    /\ CommandRan
    /\ AllOutputsBlank
    /\ ret = "True"

----------------------------------------------------------------------------
(* Claims about the legacy engine, checked under SpecLegacy                 *)

\* the output of a command counts: it ran without error and printed more
\* than blanks
Counts(e) == ~e.err /\ ~WhitespaceOnly(e.out)

\* what is kept of each output that counts, given the budget that is left:
\* the whole output, or its first characters up to the budget, cut
RECURSIVE KeptOutputs(_, _)
KeptOutputs(events, budget) ==
    IF events = <<>> THEN <<>>
    ELSE IF ~Counts(events[1]) THEN KeptOutputs(Tail(events), budget)
    ELSE IF Len(events[1].out) > budget
         THEN <<[id |-> events[1].id, text |-> SubSeq(events[1].out, 1, budget),
                 cut |-> TRUE]>>
              \o KeptOutputs(Tail(events), 0)
    ELSE <<[id |-> events[1].id, text |-> events[1].out, cut |-> FALSE]>>
         \o KeptOutputs(Tail(events), budget - Len(events[1].out))

RECURSIVE KeptTotal(_)
KeptTotal(kept) == IF kept = <<>> THEN 0 ELSE Len(kept[1].text) + KeptTotal(Tail(kept))

\* the block of a kept output: the marker follows a cut output
KeptBlock(x) ==
    <<"### Context: ", config.definitions[x.id].tag, NL, FENCE, "text", NL>>
        \o x.text
        \o (IF x.cut THEN <<NL, ".", ".", ".", SP, "[", "T", "R", "U", "N", "C", "A",
                            "T", "E", "D", "]">>
            ELSE <<>>)
        \o <<NL, FENCE, NL>>

\* C29: in the legacy build_context a non-blank output longer than the budget
\* that is left (max_chars less the running total) is kept up to that budget
\* and followed by the [TRUNCATED] marker, no command of a later context id
\* is executed, and the raw characters kept, markers not counted, never total
\* more than max_chars
C29_TruncateAndStop ==
    cur.k # 0 =>
        LET max_chars == config.checks[cur.k].max_chars
            kept == KeptOutputs(RunEvents, max_chars)
        IN  /\ asm.buffer = [k \in 1..Len(kept) |-> KeptBlock(kept[k])]
            /\ \A k \in 1..Len(kept) : kept[k].cut => k = Len(kept)
            /\ \A k \in 1..Len(RunEvents) :
                  (Counts(RunEvents[k])
                   /\ Len(RunEvents[k].out) > max_chars - KeptTotal(KeptOutputs(SubSeq(RunEvents, 1, k - 1), max_chars)))
                  => (k = Len(RunEvents) /\ epc # "building")
            /\ KeptTotal(kept) <= max_chars

\* the first output left one character of the budget and the second is two
\* long: its first character and the marker were kept
C29_Witness ==
    /\ epc = "assembled"
    /\ cur.k # 0
    /\ config.checks[cur.k].max_chars = 3
    /\ Len(RunEvents) = 2
    /\ RunEvents[1].out = <<"x", SP>>
    /\ RunEvents[2].out = <<"x", "x">>
    /\ Len(asm.buffer) = 2
    /\ asm.buffer[2] = <<"### Context: ", "d2", NL, FENCE, "text", NL, "x">>
                          \o TruncatedMarker \o <<NL, FENCE, NL>>

\* the response decodes neither as a whole nor from a fenced block
LegacyUndecodable ==
    /\ ~JsonLoads(answer).ok
    /\ ~(ReSearch(answer, 1).ok /\ JsonLoads(ReSearch(answer, 1).grp).ok)

\* C30: in the legacy engine a response that decodes neither as a whole nor
\* from a fenced block never makes run_check return True
C30_UndecodableNeverPasses ==
    (epc = "done" /\ Calls("analyze") # {} /\ LegacyUndecodable) => ret # "True"

\* the provider answered "I refuse": the legacy parser assumed PASS and
\* run_check returned True
C30_Witness ==
    /\ epc = "done"
    /\ answer = <<"I", SP, "refuse">>
    /\ LegacyUndecodable
    /\ verdict.status = <<"PASS">>
    /\ ret = "True"

----------------------------------------------------------------------------
(* ProviderFactory and the adapters (services/providers.py).  A model name  *)
(* is a sequence of characters.                                             *)

\* str.startswith
StartsWith(s, p) == Len(s) >= Len(p) /\ SubSeq(s, 1, Len(p)) = p

\* p in s
RECURSIVE Contains(_, _)
Contains(s, p) ==
    IF Len(s) < Len(p) THEN FALSE
    ELSE StartsWith(s, p) \/ Contains(Tail(s), p)

ClaudePrefix == <<"c", "l", "a", "u", "d", "e">>
GeminiPrefix == <<"g", "e", "m", "i", "n", "i">>

\* a routing that looks for the vendor's word anywhere in the name
ResolveProviderKey_contains(model) ==
    IF Contains(model, ClaudePrefix) THEN "anthropic"
    ELSE IF Contains(model, GeminiPrefix) THEN "gemini"
    ELSE "openai"

\* _resolve_provider_key
ResolveProviderKey(model) ==
    IF StartsWith(model, ClaudePrefix) THEN "anthropic"
    ELSE IF StartsWith(model, GeminiPrefix) THEN "gemini"
    ELSE "openai"

\* a routing that forgets the dry run
ProviderKey_ignoreDryRun(dry, model) == ResolveProviderKey(model)

\* get_provider: the key handed to _get_instance
ProviderKey(dry, model) == IF dry THEN "mock" ELSE ResolveProviderKey(model)

\* self._registry.get(key, OpenAIProvider)
RegistryGet(key) ==
    CASE key = "openai" -> "OpenAIProvider"
      [] key = "anthropic" -> "AnthropicProvider"
      [] key = "gemini" -> "GeminiProvider"
      [] key = "mock" -> "MockAIProvider"
      [] OTHER -> "OpenAIProvider"

\* provider_cls(): the adapter has a client when its API key is set and its
\* library can be imported; the mock adapter has no constructor
Construct(cls, serial, key_set, lib_ok) ==
    [cls |-> cls, serial |-> serial,
     ready |-> cls = "MockAIProvider" \/ (key_set /\ lib_ok)]

\* a factory without its cache
GetInstance_noCache(insts, key, fresh) == (key :> fresh) @@ insts

\* _get_instance: self._instances after the call; fresh is the adapter
\* the class would construct
GetInstance(insts, key, fresh) ==
    IF key \notin DOMAIN insts THEN (key :> fresh) @@ insts ELSE insts

MockReply ==
    <<LBRACE, Q, "status", Q, ":", SP, Q, "PASS", Q, ",", SP,
      Q, "reason", Q, ":", SP, Q, "Dry Run Successful", Q, RBRACE>>

\* the reason an adapter without client gives
NotReadyReason(cls) ==
    CASE cls = "OpenAIProvider" -> <<"OpenAI client not ready (Check OPENAI_API_KEY)">>
      [] cls = "AnthropicProvider" -> <<"Anthropic client not ready">>
      [] OTHER -> <<"Google GenAI client not ready (Check GOOGLE_API_KEY)">>

\* the literal an adapter without client returns
NotReadyReply(cls) ==
    <<LBRACE, Q, "status", Q, ":", SP, Q, "FAIL", Q, ",", SP,
      Q, "reason", Q, ":", SP, Q>> \o NotReadyReason(cls) \o <<Q, RBRACE>>

\* f"API Error: {str(e)}" and its like
ErrorReason(cls, msg) ==
    (CASE cls = "OpenAIProvider" -> <<"API Error: ">>
       [] cls = "AnthropicProvider" -> <<"Anthropic API Error: ">>
       [] OTHER -> <<"Gemini API Error: ">>) \o msg

\* a reply put together around the message as it is
ErrorReply_unescaped(cls, msg) ==
    <<LBRACE, Q, "status", Q, ":", SP, Q, "FAIL", Q, ",", SP,
      Q, "reason", Q, ":", SP, Q>> \o ErrorReason(cls, msg) \o <<Q, RBRACE>>

\* json.dumps({"status": "FAIL", "reason": f"API Error: {str(e)}"})
ErrorReply(cls, msg) ==
    JsonDumps(JObj(MkDict(JStr(<<"FAIL">>), Absent, JStr(ErrorReason(cls, msg)), Absent)))

\* what the backend did with the request: it answered, or the call raised
Answered(text) == [raised |-> FALSE, text |-> text]
BackendRaised(msg) == [raised |-> TRUE, text |-> msg]

\* analyze of an adapter
ProviderAnalyze(inst, backend) ==
    IF inst.cls = "MockAIProvider" THEN MockReply
    ELSE IF ~inst.ready THEN NotReadyReply(inst.cls)
    ELSE IF backend.raised THEN ErrorReply(inst.cls, backend.text)
    ELSE backend.text

----------------------------------------------------------------------------
(* The model names a check may carry, what a backend may do, and the        *)
(* factory as its callers use it                                            *)

MaxBuilt == 4

ModelNames ==
    { <<>>,
      ClaudePrefix,
      ClaudePrefix \o <<"-", "3">>,
      GeminiPrefix \o <<"-", "p">>,
      <<"g", "p", "t">>,
      <<"c", "l", "a", "u", "d">>,
      <<"g", "e", "m">>,
      <<"m", "y", "-">> \o ClaudePrefix,
      <<"x">> \o GeminiPrefix,
      <<"C", "l", "a", "u", "d", "e">> }

\* str(e) of the exception a backend call raised: plain, quoting JSON, and
\* quoting a fenced block
ErrorMessages ==
    { <<>>,
      <<"timeout">>,
      <<"401", SP, LBRACE, Q, "error", Q, ":", SP, Q, "bad", Q, RBRACE>>,
      <<"see", SP, FENCE, SP, LBRACE, RBRACE, SP, FENCE>> }

BackendResults ==
    {Answered(t) : t \in {PassObj, FailObj, <<"I", SP, "refuse">>}}
    \cup {BackendRaised(m) : m \in ErrorMessages}

Messages == {<<>>, <<"Review">>}

NoProvider == [model |-> <<>>, key |-> "", inst |-> Construct("", 0, FALSE, FALSE)]
NoReply == [inst |-> Construct("", 0, FALSE, FALSE), model |-> <<>>, message |-> <<>>,
            backend |-> Answered(<<>>), text |-> <<>>]

\* ProviderFactory(is_dry_run)
FactoryInit(dry) ==
    /\ is_dry_run = dry
    /\ instances = [k \in {} |-> Construct("", 0, FALSE, FALSE)]
    /\ built = <<>>
    /\ requested = {}
    /\ got = NoProvider
    /\ reply = NoReply

\* get_provider(model); the environment decides whether an adapter that is
\* constructed finds its API key and its library
GetProvider ==
    /\ Len(built) < MaxBuilt
    /\ \E model \in ModelNames, key_set \in BOOLEAN, lib_ok \in BOOLEAN :
        LET key == ProviderKey(is_dry_run, model)
            fresh == Construct(RegistryGet(key), Len(built) + 1, key_set, lib_ok)
            insts == GetInstance(instances, key, fresh)
        IN  /\ instances' = insts
            /\ built' = IF insts[key] = fresh THEN Append(built, fresh.cls) ELSE built
            /\ requested' = requested \cup {key}
            /\ got' = [model |-> model, key |-> key, inst |-> insts[key]]
    /\ reply' = NoReply
    /\ UNCHANGED <<is_dry_run, nonFactory>>

\* provider.analyze(model, full_message) on the adapter get_provider returned
CallAnalyze ==
    /\ got # NoProvider
    /\ \E message \in Messages, backend \in BackendResults :
        reply' = [inst |-> got.inst, model |-> got.model, message |-> message,
                  backend |-> backend, text |-> ProviderAnalyze(got.inst, backend)]
    /\ UNCHANGED <<is_dry_run, instances, built, requested, got, nonFactory>>

FactoryNext == GetProvider \/ CallAnalyze

----------------------------------------------------------------------------
(* The run command (main.py) and GitInspector.should_skip                   *)

\* str.lower() on the words the model uses
LowerAtom(a) == IF a = "[SKIP-AI]" THEN "[skip-ai]" ELSE a
Lower(s) == [k \in 1..Len(s) |-> LowerAtom(s[k])]

SkipTags == {"[skip-ai]", "[no-ai]", "no_ai", "[ci-skip]"}

Cached == <<"--cached">>

\* what git log printed for the range, or that it failed
GitLogOk(output) == [failed |-> FALSE, out |-> output]
GitLogFailed == [failed |-> TRUE, out |-> <<>>]

\* GitInspector.should_skip
ShouldSkip(range, gitlog) ==
    IF range = <<>> \/ range = Cached THEN FALSE
    ELSE IF gitlog.failed THEN FALSE
    ELSE \E k \in 1..Len(gitlog.out) : Lower(gitlog.out)[k] \in SkipTags

\* f"{args.commit}^..{args.commit}"
CommitRange(commit) == <<commit, "^..", commit>>

\* loader.load(args.config): a file that is no YAML is a ConfigError, any
\* other file is parsed
LoadFile(w) ==
    IF ~w.yaml_ok THEN Failed("ConfigError") ELSE ParseConfig(w.raw, w.prompt_file)

\* def __init__(self, config, runner, provider_factory, debugger, patch_manager)
EngineParams == <<"config", "runner", "provider_factory", "debugger", "patch_manager">>

\* ReviewEngine(config, runner, provider_factory, debugger)
EngineArgs == <<"config", "runner", "provider_factory", "debugger">>

\* a call binds every parameter, none of which has a default, or raises
\* TypeError
CallRaises(params, arguments) == Len(arguments) # Len(params)

\* [c for c in config.checks if c.id == args.check] if args.check else config.checks
SelectChecks(cfg, check) ==
    IF check # "" THEN SelectSeq(cfg.checks, LAMBDA c : c.id = check) ELSE cfg.checks

----------------------------------------------------------------------------
(* The command lines, the files and the commit messages of a run            *)

ArgSets ==
    [force : BOOLEAN, commit : {"", "abc"}, context_file : {"", "ctx.txt"},
     check : {"", "c1", "c9"}, dry_run : BOOLEAN]

\* AI_DIFF_TARGET: not set (the default), set by the hook, or set empty
EnvTargets == {Cached, <<"origin/main..HEAD">>, <<>>}

GitLogResults ==
    { GitLogFailed,
      GitLogOk(<<>>),
      GitLogOk(<<"fix", SP, "typo">>),
      GitLogOk(<<"wip", SP, "[skip-ai]">>),
      GitLogOk(<<"WIP", SP, "[SKIP-AI]">>),
      GitLogOk(<<"no_ai">>) }

\* the context file: missing, unreadable, or its text
ContextFiles ==
    { [exists |-> FALSE, readable |-> FALSE, text |-> <<>>],
      [exists |-> TRUE, readable |-> FALSE, text |-> <<>>],
      [exists |-> TRUE, readable |-> TRUE, text |-> <<"x", "x">>] }

ValidRaw ==
    [definitions |-> <<[id |-> "d1", cmd |-> "ls"]>>,
     prompts |-> <<[id |-> "p1", text |-> <<"Review", "JSON">>]>>,
     checks |-> <<[id |-> "c1", prompt_id |-> "p1", context |-> YList(<<"d1">>)],
                  [id |-> "c2", prompt_id |-> "p1", context |-> YList(<<>>)]>>]

\* two checks with one id
TwinChecks ==
    <<[id |-> "c1", prompt_id |-> "p1", context |-> YList(<<"d1">>)],
      [id |-> "c1", prompt_id |-> "p1", context |-> YList(<<>>)]>>

\* a valid file, a file whose checks share their id, a file without checks,
\* a dangling context id, a definition without cmd
MainRawConfigs ==
    { ValidRaw,
      [ValidRaw EXCEPT !.checks = TwinChecks],
      [ValidRaw EXCEPT !.checks = <<>>],
      [ValidRaw EXCEPT !.checks =
          <<[id |-> "c1", prompt_id |-> "p1", context |-> YList(<<"d1", "ghost">>)]>>],
      [ValidRaw EXCEPT !.definitions = <<[id |-> "d1"]>>] }

Worlds ==
    {[yaml_ok |-> TRUE, raw |-> r, prompt_file |-> [ok |-> FALSE, text |-> <<>>]] :
        r \in MainRawConfigs}
    \cup {[yaml_ok |-> FALSE, raw |-> NoRaw, prompt_file |-> [ok |-> FALSE, text |-> <<>>]]}

NoArgs ==
    [force |-> FALSE, commit |-> "", context_file |-> "", check |-> "", dry_run |-> FALSE]
NoContext == [given |-> FALSE, text |-> <<>>]

MainInit ==
    /\ args = NoArgs
    /\ world \in Worlds
    /\ target_range = Cached
    /\ manual_context = NoContext
    /\ main_config = NotLoaded
    /\ run_calls = <<>>
    /\ exit_code = -1
    /\ mexc = ""
    /\ mpc = "start"

MainOff == MainInit /\ world.raw = ValidRaw

\* sys.exit(code), or an exception that nothing catches: the interpreter
\* prints the traceback and exits with 1
Exit(code, exc) ==
    /\ exit_code' = code
    /\ mexc' = exc
    /\ mpc' = "exited"

\* main, from the command line to the diff target
RunCommand ==
    /\ mpc = "start"
    /\ \E a \in ArgSets, env_target \in EnvTargets :
        /\ args' = a
        /\ target_range' = IF a.commit # "" THEN CommitRange(a.commit) ELSE env_target
    /\ mpc' = "inspect"
    /\ UNCHANGED <<world, manual_context, main_config, run_calls, exit_code, mexc, nonMain>>

\* if not args.force and inspector.should_skip(target_range): sys.exit(0)
InspectCommits ==
    /\ mpc = "inspect"
    /\ IF args.force
       THEN /\ mpc' = "context"
            /\ UNCHANGED <<exit_code, mexc>>
       ELSE \E gitlog \in GitLogResults :
                IF ShouldSkip(target_range, gitlog)
                THEN Exit(0, "")
                ELSE /\ mpc' = "context"
                     /\ UNCHANGED <<exit_code, mexc>>
    /\ UNCHANGED <<args, world, target_range, manual_context, main_config, run_calls, nonMain>>

\* manual_context: the content of --context-file
LoadManualContext ==
    /\ mpc = "context"
    /\ IF args.context_file = ""
       THEN /\ mpc' = "load"
            /\ UNCHANGED <<manual_context, exit_code, mexc>>
       ELSE \E f \in ContextFiles :
                IF ~f.exists \/ ~f.readable
                THEN /\ Exit(1, "")
                     /\ UNCHANGED manual_context
                ELSE /\ manual_context' = [given |-> TRUE, text |-> f.text]
                     /\ mpc' = "load"
                     /\ UNCHANGED <<exit_code, mexc>>
    /\ UNCHANGED <<args, world, target_range, main_config, run_calls, nonMain>>

\* config = loader.load(args.config); only ConfigError is caught
LoadConfig ==
    /\ mpc = "load"
    /\ LET r == LoadFile(world)
       IN  /\ main_config' = r
           /\ IF r.kind = "raised"
              THEN Exit(1, IF r.exc = "ConfigError" THEN "" ELSE r.exc)
              ELSE /\ mpc' = "setup"
                   /\ UNCHANGED <<exit_code, mexc>>
    /\ UNCHANGED <<args, world, target_range, manual_context, run_calls, nonMain>>

\* the services are set up and the engine is constructed, with four
\* arguments for its five parameters: TypeError ends the process before
\* the checks are selected and run
SetupServices ==
    /\ mpc = "setup"
    /\ CallRaises(EngineParams, EngineArgs)
    /\ Exit(1, "TypeError")
    /\ UNCHANGED <<args, world, target_range, manual_context, main_config, run_calls, nonMain>>

MainNext == RunCommand \/ InspectCommits \/ LoadManualContext \/ LoadConfig \/ SetupServices

----------------------------------------------------------------------------
(* Claims about the factory and the adapters, checked under SpecFactory     *)

HasPrefix(s, p) == Len(s) >= Len(p) /\ \A k \in 1..Len(p) : s[k] = p[k]

\* C11: with dry-run off, a model name starting with "claude" yields the
\* Anthropic adapter, one starting with "gemini" the Gemini adapter, and
\* every other name the OpenAI adapter; the mock adapter is never returned.
C11_PrefixRouting ==
    (~is_dry_run /\ got # NoProvider) =>
        /\ got.inst.cls =
              (IF HasPrefix(got.model, <<"c", "l", "a", "u", "d", "e">>)
                  THEN "AnthropicProvider"
               ELSE IF HasPrefix(got.model, <<"g", "e", "m", "i", "n", "i">>)
                  THEN "GeminiProvider"
               ELSE "OpenAIProvider")
        /\ got.inst.cls # "MockAIProvider"

\* a name that holds "claude" after other characters was routed to OpenAI
C11_Witness ==
    /\ ~is_dry_run
    /\ got.model = <<"m", "y", "-", "c", "l", "a", "u", "d", "e">>
    /\ got.inst.cls = "OpenAIProvider"

\* every adapter was constructed for a key that was asked for, once
ConstructedOnce ==
    /\ Len(built) = Cardinality(requested)
    /\ \A j, k \in 1..Len(built) : built[j] = built[k] => j = k
    /\ DOMAIN instances = requested
    /\ got # NoProvider => got.inst = instances[got.key]

\* a cached adapter stays the adapter of its key
CacheKept ==
    \A k \in DOMAIN instances : k \in DOMAIN instances' /\ instances'[k] = instances[k]

\* C12: over any sequence of get_provider calls on one factory, each adapter
\* class is constructed at most once per routing key, calls that resolve to
\* the same key return the identical instance, there are as many
\* constructions as distinct keys requested, and a cached instance is never
\* replaced or removed.
C12_ConstructedOncePerKey == [](ConstructedOnce) /\ [][CacheKept]_vars

\* three adapters were built, and a later call returned the first of them
C12_Witness ==
    /\ Len(built) = 3
    /\ Cardinality(requested) = 3
    /\ got.inst.serial = 1

\* C13: in a dry run only MockAIProvider is ever constructed, and its
\* analyze returns the same PASS verdict text for every model and message.
C13_DryRunOnlyMock ==
    is_dry_run =>
        /\ \A k \in 1..Len(built) : built[k] = "MockAIProvider"
        /\ got # NoProvider => got.inst.cls = "MockAIProvider"
        /\ reply # NoReply =>
              reply.text = JsonDumps(JObj(MkDict(JStr(<<"PASS">>), Absent,
                                                 JStr(<<"Dry Run Successful">>), Absent)))

\* in a dry run a claude model was asked to review, and the mock answered
C13_Witness ==
    /\ is_dry_run
    /\ got.model = <<"c", "l", "a", "u", "d", "e", "-", "3">>
    /\ reply # NoReply
    /\ reply.message = <<"Review">>
    /\ built = <<"MockAIProvider">>
    /\ ParseJsonResponse(reply.text).status = <<"PASS">>

\* the adapter had no client, or its backend call raised
VendorFailed ==
    /\ reply # NoReply
    /\ reply.inst.cls \in {"OpenAIProvider", "AnthropicProvider", "GeminiProvider"}
    /\ ~reply.inst.ready \/ reply.backend.raised

\* s ends with t
EndsWith(s, t) == Len(s) >= Len(t) /\ SubSeq(s, Len(s) - Len(t) + 1, Len(s)) = t

\* C14: when a vendor adapter has no client or its backend call raises,
\* analyze returns the text of a JSON object with status FAIL and a reason;
\* parsed, it is the verdict FAIL with that reason as feedback, for which
\* run_check returns False.
C14_VendorFailureIsFail ==
    VendorFailed =>
        LET d == JsonLoads(reply.text)
            r == ParseJsonResponse(reply.text)
        IN  /\ d.ok
            /\ d.val.t = "obj"
            /\ DOMAIN d.val.v = {<<"status">>, <<"reason">>}
            /\ d.val.v[<<"status">>] = JStr(<<"FAIL">>)
            /\ d.val.v[<<"reason">>].t = "str"
            /\ (reply.inst.ready /\ reply.backend.raised) =>
                    EndsWith(d.val.v[<<"reason">>].v, reply.backend.text)
            /\ r = Verdict(<<"FAIL">>, d.val.v[<<"reason">>], JArr(<<>>))
            /\ ReturnFor(r.status, r.modified_files) = "False"

\* the backend of the Anthropic adapter raised with a message quoting JSON
C14_Witness ==
    /\ VendorFailed
    /\ reply.inst.cls = "AnthropicProvider"
    /\ reply.inst.ready
    /\ reply.backend.raised
    /\ \E k \in 1..Len(reply.backend.text) : reply.backend.text[k] = Q
    /\ ParseJsonResponse(reply.text).status = <<"FAIL">>

----------------------------------------------------------------------------
(* Claims about the run command, checked under SpecMain                     *)

\* the checks the run selects from the configuration it loaded
Selected == SelectChecks(main_config.config, args.check)

\* C15: with a valid configuration and a non-empty selection, the run
\* command calls run_check for every selected check, whatever the earlier
\* checks returned, and exits with 0 if and only if every call returned
\* True, with 1 if any returned False.
C15_RunsEveryCheck ==
    (mpc = "exited" /\ main_config.kind = "config" /\ Selected # <<>>) =>
        /\ Len(run_calls) = Len(Selected)
        /\ \A k \in 1..Len(run_calls) : run_calls[k].id = Selected[k].id
        /\ exit_code = 0 <=> \A k \in 1..Len(run_calls) : run_calls[k].result = "True"
        /\ exit_code = 1 <=> \E k \in 1..Len(run_calls) : run_calls[k].result = "False"

\* a valid configuration with two checks was loaded, and the process ended
\* with TypeError before any check was run
C15_Witness ==
    /\ mpc = "exited"
    /\ main_config.kind = "config"
    /\ args.check = ""
    /\ Len(Selected) = 2
    /\ run_calls = <<>>
    /\ mexc = "TypeError"
    /\ exit_code = 1

\* the configuration file is one the loader refuses
Malformed == LoadFile(world).kind = "raised"

\* C16: when the configuration file is malformed or referentially
\* inconsistent, the run command exits with a non-zero code and runs no
\* check, whatever the flags and the commit messages.
C16_MalformedConfigFails ==
    (mpc = "exited" /\ Malformed) => (exit_code # 0 /\ run_calls = <<>>)

\* a commit message carries a skip tag: the run of --commit exits with 0
\* although the configuration file names a context that is not defined
C16_Witness ==
    /\ mpc = "exited"
    /\ LoadFile(world).exc = "ConfigError"
    /\ ~args.force
    /\ args.commit = "abc"
    /\ main_config = NotLoaded
    /\ exit_code = 0

\* the CheckDefinition that the k-th call of run_check executed: the first
\* check of the configuration with the id the call was given
Executed(k) ==
    main_config.config.checks[FindCheck(main_config.config, run_calls[k].id)]

\* C28: the run command runs each selected check once, in declared order:
\* the checks executed are the selected CheckDefinitions, one after the
\* other, also when two checks share their id
C28_EachCheckOnceInOrder ==
    (mpc = "exited" /\ main_config.kind = "config" /\ Selected # <<>>) =>
        /\ Len(run_calls) = Len(Selected)
        /\ \A k \in 1..Len(run_calls) : Executed(k) = Selected[k]

\* a configuration whose two checks share the id c1 was loaded and both were
\* selected with --check c1: the process ended before any check was run
C28_Witness ==
    /\ mpc = "exited"
    /\ main_config.kind = "config"
    /\ args.check = "c1"
    /\ Len(Selected) = 2
    /\ Selected[1] # Selected[2]
    /\ run_calls = <<>>
    /\ mexc = "TypeError"

----------------------------------------------------------------------------
(* The command runner: ShellCommandRunner.run (services/runner.py) and the   *)
(* internal commands (services/internal_commands.py).  Here a text is a     *)
(* sequence of characters and NL; a file name is a sequence of characters;  *)
(* a command line is a sequence of words and colons.  The diff target       *)
(* (AI_DIFF_TARGET) only changes the words of the git command lines and is  *)
(* left out.                                                                *)

\* Optional[List[str]]: None, or a list of patterns
PyNone == [is_none |-> TRUE, items |-> <<>>]
PyList(items) == [is_none |-> FALSE, items |-> items]

\* "if include:", "if exclude:": None and the empty list are falsy
HasPatterns(patterns) == ~patterns.is_none /\ patterns.items # <<>>

STAR == "*"
QMARK == "?"

\* fnmatch.fnmatch(filename, pattern) on a POSIX system (normcase is the
\* identity): * matches any run of characters, the slash included, ? matches
\* one character, any other character matches itself; the whole name has to
\* match.  The patterns of the model hold no bracket expression.
RECURSIVE Fnmatch(_, _)
Fnmatch(filename, pattern) ==
    IF pattern = <<>> THEN filename = <<>>
    ELSE IF Head(pattern) = STAR
         THEN \/ Fnmatch(filename, Tail(pattern))
              \/ (filename # <<>> /\ Fnmatch(Tail(filename), pattern))
    ELSE IF Head(pattern) = QMARK
         THEN filename # <<>> /\ Fnmatch(Tail(filename), Tail(pattern))
    ELSE /\ filename # <<>>
         /\ Head(filename) = Head(pattern)
         /\ Fnmatch(Tail(filename), Tail(pattern))

\* for pattern in patterns: if fnmatch.fnmatch(filename, pattern): ... break
RECURSIVE AnyMatch(_, _)
AnyMatch(filename, patterns) ==
    IF patterns = <<>> THEN FALSE
    ELSE IF Fnmatch(filename, Head(patterns)) THEN TRUE
    ELSE AnyMatch(filename, Tail(patterns))

\* a filter where a file that matches an include pattern is kept whatever
\* the exclude patterns say
KeepsFile_includeWins(filename, include, exclude) ==
    IF HasPatterns(include) THEN AnyMatch(filename, include.items)
    ELSE ~(HasPatterns(exclude) /\ AnyMatch(filename, exclude.items))

\* the body of the loop of _filter_files: FALSE where it says continue
KeepsFile(filename, include, exclude) ==
    IF HasPatterns(include) /\ ~AnyMatch(filename, include.items) THEN FALSE
    ELSE IF HasPatterns(exclude) /\ AnyMatch(filename, exclude.items) THEN FALSE
    ELSE TRUE

\* for filename in files: ... filtered.append(filename)
RECURSIVE FilterLoop(_, _, _, _)
FilterLoop(files, include, exclude, filtered) ==
    IF files = <<>> THEN filtered
    ELSE FilterLoop(Tail(files), include, exclude,
                    IF KeepsFile(Head(files), include, exclude)
                    THEN Append(filtered, Head(files))
                    ELSE filtered)

\* InternalCommandHandler._filter_files
FilterFiles(files, include, exclude) == FilterLoop(files, include, exclude, <<>>)

\* str.strip(): the blanks at both ends are dropped
RECURSIVE LStrip(_)
LStrip(s) == IF s # <<>> /\ Head(s) \in {SP, NL} THEN LStrip(Tail(s)) ELSE s

RECURSIVE RStrip(_)
RStrip(s) ==
    IF s # <<>> /\ s[Len(s)] \in {SP, NL} THEN RStrip(SubSeq(s, 1, Len(s) - 1))
    ELSE s

Strip(s) == RStrip(LStrip(s))

\* str.splitlines(): a line ends at NL; a last line without NL counts, an
\* empty rest after the last NL does not
RECURSIVE SplitLoop(_, _, _)
SplitLoop(s, line, lines) ==
    IF s = <<>> THEN (IF line = <<>> THEN lines ELSE Append(lines, line))
    ELSE IF Head(s) = NL THEN SplitLoop(Tail(s), <<>>, Append(lines, line))
    ELSE SplitLoop(Tail(s), Append(line, Head(s)), lines)

SplitLines(s) == SplitLoop(s, <<>>, <<>>)

\* an external command: it exits with 0 and leaves its standard output, or
\* it exits non-zero (subprocess raises CalledProcessError)
ProcOk(out) == [ok |-> TRUE, out |-> out]
ProcFailed == [ok |-> FALSE, out |-> <<>>]

\* one run of an external command, as the handler's trace records it
Proc(cmd, result) == [cmd |-> cmd, ok |-> result.ok]

\* one call of _filter_files, as the handler's trace records it
FilterCall(files, include, exclude) ==
    [files |-> files, include |-> include, exclude |-> exclude,
     filtered |-> FilterFiles(files, include, exclude)]

\* what a method of the runner gives: an output string, or CommandError;
\* with the external commands it ran and the calls of _filter_files it made
Output(out, procs, filters) ==
    [kind |-> "returned", exc |-> "", out |-> out, procs |-> procs,
     filters |-> filters]
CommandError(procs, filters) ==
    [kind |-> "raised", exc |-> "CommandError", out |-> <<>>, procs |-> procs,
     filters |-> filters]

GitNames == "git diff --name-only"
GitDiff == "git diff"

\* _get_changed_files: CalledProcessError is caught and gives the empty list
GetChangedFiles(names, include, exclude) ==
    IF ~names.ok THEN [files |-> <<>>, filters |-> <<>>]
    ELSE LET files_output == Strip(names.out) IN
         IF files_output = <<>> THEN [files |-> <<>>, filters |-> <<>>]
         ELSE LET all_files == SplitLines(files_output) IN
              [files |-> FilterFiles(all_files, include, exclude),
               filters |-> <<FilterCall(all_files, include, exclude)>>]

\* _git_diff_only
GitDiffOnly(names, diff, include, exclude) ==
    LET valid == GetChangedFiles(names, include, exclude)
        listed == <<Proc(GitNames, names)>>
    IN  IF valid.files = <<>> THEN Output(<<>>, listed, valid.filters)
        ELSE IF diff.ok
             THEN Output(Strip(diff.out), Append(listed, Proc(GitDiff, diff)),
                         valid.filters)
             ELSE CommandError(Append(listed, Proc(GitDiff, diff)), valid.filters)

\* the content of a file of the working tree
FileText(filename) == <<"t">> \o filename

\* for filename in valid_files: if os.path.exists(filename) ...:
\*     buffer.append(f"\n=== FILE: {filename} ==="); buffer.append(f.read())
RECURSIVE ReadFiles(_, _, _)
ReadFiles(valid_files, on_disk, buffer) ==
    IF valid_files = <<>> THEN buffer
    ELSE LET filename == Head(valid_files) IN
         ReadFiles(Tail(valid_files), on_disk,
                   IF filename \in on_disk
                   THEN buffer \o << <<NL, "=== FILE: ">> \o filename \o <<" ===">>,
                                     FileText(filename) >>
                   ELSE buffer)

\* _full_content
FullContent(names, on_disk, include, exclude) ==
    LET valid == GetChangedFiles(names, include, exclude)
        listed == <<Proc(GitNames, names)>>
    IN  IF valid.files = <<>> THEN Output(<<>>, listed, valid.filters)
        ELSE Output(Join(ReadFiles(valid.files, on_disk, <<>>)), listed,
                    valid.filters)

\* _push_diff: the exception of _git_diff_only leaves it
PushDiff(w, include, exclude) ==
    LET diff == GitDiffOnly(w.names, w.diff, include, exclude) IN
    IF diff.kind = "raised" THEN diff
    ELSE LET content == FullContent(w.names_again, w.on_disk, include, exclude)
             procs == diff.procs \o content.procs
             filters == diff.filters \o content.filters
         IN  IF diff.out = <<>> /\ content.out = <<>>
             THEN Output(<<>>, procs, filters)
             ELSE Output(<<"=== GIT DIFF ===", NL>> \o diff.out
                            \o <<NL, NL, "=== FULL FILE CONTEXT ===", NL>>
                            \o content.out,
                         procs, filters)

COLON == ":"
Internal == "internal"

\* self._registry
Registry == {<<"push_diff">>, <<"git_diff">>, <<"changed_files_content">>}

\* InternalCommandHandler.execute
Execute(command_str, include, exclude, w) ==
    LET colon == IndexFrom(command_str, COLON, 1) IN
    IF colon = 0 THEN CommandError(<<>>, <<>>)
    ELSE LET action == SubSeq(command_str, colon + 1, Len(command_str)) IN
         IF action \notin Registry THEN CommandError(<<>>, <<>>)
         ELSE IF action = <<"push_diff">> THEN PushDiff(w, include, exclude)
         ELSE IF action = <<"git_diff">>
              THEN GitDiffOnly(w.names, w.diff, include, exclude)
         ELSE FullContent(w.names, w.on_disk, include, exclude)

\* ShellCommandRunner.run
Run(command, include, exclude, w) ==
    IF command = <<>> THEN Output(<<>>, <<>>, <<>>)
    ELSE IF StartsWith(command, <<Internal, COLON>>)
         THEN Execute(command, include, exclude, w)
    ELSE IF w.shell.ok
         THEN Output(Strip(w.shell.out), <<Proc("shell", w.shell)>>, <<>>)
    ELSE CommandError(<<Proc("shell", w.shell)>>, <<>>)

(* The runner's inputs                                                      *)

FileA == <<"a", ".", "p">>
FileB == <<"b">>
FileC == <<"d", "/", "a", ".", "p">>

\* the standard output of git diff --name-only
NamesOutputs ==
    { <<>>,
      <<NL>>,
      FileA \o <<NL>>,
      FileA \o <<NL>> \o FileB \o <<NL>>,
      FileB \o <<NL>> \o FileC \o <<NL>> \o FileA,
      FileA \o <<NL>> \o FileA \o <<NL>> }

NamesResults == {ProcOk(out) : out \in NamesOutputs} \cup {ProcFailed}

DiffResults == {ProcOk(<<"+", "x", NL>>), ProcOk(<<>>), ProcFailed}

ShellResults == {ProcOk(<<SP, "o", NL>>), ProcOk(<<>>), ProcFailed}

DiskChoices == {{}, {FileA}, {FileA, FileB, FileC}}

PatternLists ==
    { PyNone,
      PyList(<<>>),
      PyList(<< <<STAR, ".", "p">> >>),
      PyList(<< <<"b">>, <<"d", "/", STAR>> >>),
      PyList(<< <<QMARK>>, <<"a", STAR>> >>) }

Commands ==
    { <<>>,
      <<"ls">>,
      <<Internal>>,
      <<Internal, COLON, "git_diff">>,
      <<Internal, COLON, "changed_files_content">>,
      <<Internal, COLON, "push_diff">>,
      <<Internal, COLON, "nope">>,
      <<Internal, COLON>> }

\* what the external commands of one call would do
RunnerWorlds ==
    [shell : ShellResults, names : NamesResults, diff : DiffResults,
     names_again : NamesResults, on_disk : DiskChoices]

NoRun == [command |-> <<>>, include |-> PyNone, exclude |-> PyNone]
NoResult == [kind |-> "none", exc |-> "", out |-> <<>>, procs |-> <<>>,
             filters |-> <<>>]

RunnerInit ==
    /\ run_args = NoRun
    /\ run_result = NoResult
    /\ rpc = "idle"

\* one call of ShellCommandRunner.run
CallRun ==
    /\ rpc = "idle"
    /\ \E command \in Commands, include \in PatternLists, exclude \in PatternLists,
          w \in RunnerWorlds :
          /\ run_args' = [command |-> command, include |-> include,
                          exclude |-> exclude]
          /\ run_result' = Run(command, include, exclude, w)
    /\ rpc' = "done"
    /\ UNCHANGED nonRunner

RunnerNext == CallRun

----------------------------------------------------------------------------
(* Claims about the command runner                                          *)

\* the file matches at least one pattern of the list
MatchesSome(f, patterns) ==
    \E k \in DOMAIN patterns.items : Fnmatch(f, patterns.items[k])

\* (no include patterns or the file matches one) and it matches no exclude
\* pattern
Passes(f, include, exclude) ==
    /\ include.is_none \/ include.items = <<>> \/ MatchesSome(f, include)
    /\ ~MatchesSome(f, exclude)

\* the files of the list that pass, in their order
PassingFiles(files, include, exclude) ==
    LET keep == {k \in DOMAIN files : Passes(files[k], include, exclude)}
        nth[n \in 0..Len(files)] ==
            IF n = 0 THEN 0
            ELSE CHOOSE k \in keep : k > nth[n - 1] /\ \A j \in keep : j > nth[n - 1] => j >= k
    IN  [n \in 1..Cardinality(keep) |-> files[nth[n]]]

\* C19: _filter_files returns exactly the files of its input that pass (no
\* include patterns, or one of them matches; and no exclude pattern matches),
\* in their original order, nothing added and nothing repeated; when no file
\* passes it returns the empty list and the command does not fail for it
C19_FilterKeepsPassingFiles ==
    rpc = "done" =>
        \A i \in DOMAIN run_result.filters :
            LET c == run_result.filters[i] IN
            /\ c.filtered = PassingFiles(c.files, c.include, c.exclude)
            /\ c.filtered = <<>> => run_result.kind = "returned"

\* b, d/a.p and a.p are filtered with include *.p and exclude b, d/*: only
\* a.p is left
C19_Witness ==
    /\ rpc = "done"
    /\ \E i \in DOMAIN run_result.filters :
          LET c == run_result.filters[i] IN
          /\ c.files = <<FileB, FileC, FileA>>
          /\ c.include = PyList(<< <<STAR, ".", "p">> >>)
          /\ c.exclude = PyList(<< <<"b">>, <<"d", "/", STAR>> >>)
          /\ c.filtered = <<FileA>>

\* an external command of the call exited non-zero
SomeProcFailed == \E i \in DOMAIN run_result.procs : ~run_result.procs[i].ok

\* the command is an internal: URI whose action is not in the registry
UnknownInternal ==
    /\ Len(run_args.command) >= 2
    /\ run_args.command[1] = Internal
    /\ run_args.command[2] = COLON
    /\ SubSeq(run_args.command, 3, Len(run_args.command))
          \notin {<<"push_diff">>, <<"git_diff">>, <<"changed_files_content">>}

\* C20: run raises CommandError, and returns no output, whenever an external
\* command it ran exited non-zero (the shell command, the git command that
\* lists the changed files, the git diff command) and whenever the command
\* is an internal: URI with an action outside the registry
C20_FailureIsCommandError ==
    (rpc = "done" /\ (SomeProcFailed \/ UnknownInternal)) =>
        (run_result.kind = "raised" /\ run_result.exc = "CommandError")

\* internal:git_diff where git diff --name-only exits non-zero: run returns
\* the empty output
C20_Witness ==
    /\ rpc = "done"
    /\ run_args.command = <<Internal, COLON, "git_diff">>
    /\ run_result.procs = <<[cmd |-> GitNames, ok |-> FALSE]>>
    /\ run_result.kind = "returned"
    /\ run_result.out = <<>>

----------------------------------------------------------------------------
(* Specifications: one per component; the other components stay as built    *)

Init ==
    EngineInit /\ ParserInit /\ LoaderInit /\ FactoryInit(FALSE) /\ MainOff /\ RunnerInit /\ NoHistory

Next == EngineNext

Spec == Init /\ [][Next]_vars

ParserSpecInit ==
    /\ ParserInit /\ LoaderInit /\ EngineIdle(EmptyConfig) /\ FactoryInit(FALSE)
    /\ MainOff /\ RunnerInit /\ NoHistory

SpecParser == ParserSpecInit /\ [][ParserNext]_vars

LoaderSpecInit ==
    /\ LoaderInit /\ ParserInit /\ EngineIdle(EmptyConfig) /\ FactoryInit(FALSE)
    /\ MainOff /\ RunnerInit /\ NoHistory

SpecLoader == LoaderSpecInit /\ [][LoaderNext]_vars

FactorySpecInit ==
    /\ \E dry \in BOOLEAN : FactoryInit(dry)
    /\ ParserInit /\ LoaderInit /\ EngineIdle(EmptyConfig) /\ MainOff /\ RunnerInit /\ NoHistory

SpecFactory == FactorySpecInit /\ [][FactoryNext]_vars

MainSpecInit ==
    /\ MainInit /\ ParserInit /\ LoaderInit /\ EngineIdle(EmptyConfig)
    /\ FactoryInit(FALSE) /\ RunnerInit /\ NoHistory

SpecMain == MainSpecInit /\ [][MainNext]_vars

RunnerSpecInit ==
    /\ RunnerInit /\ ParserInit /\ LoaderInit /\ EngineIdle(EmptyConfig)
    /\ FactoryInit(FALSE) /\ MainOff /\ NoHistory

SpecRunner == RunnerSpecInit /\ [][RunnerNext]_vars

RepeatSpecInit ==
    /\ EngineInit /\ ParserInit /\ LoaderInit /\ FactoryInit(FALSE) /\ MainOff
    /\ RunnerInit /\ NoHistory

SpecRepeat == RepeatSpecInit /\ [][RepeatNext]_vars

LegacySpecInit ==
    /\ EngineInit /\ ParserInit /\ LoaderInit /\ FactoryInit(FALSE) /\ MainOff
    /\ RunnerInit /\ NoHistory

SpecLegacy == LegacySpecInit /\ [][LegacyNext]_vars

====
